---- MODULE Spec2Model ----
(***************************************************************************)
(* A model of imgui-support: the glue between an application, the Dear     *)
(* ImGui library and two hosts (a GLFW window, "standalone", and an        *)
(* X-Plane plugin window, "xplane").  The model covers the geometry        *)
(* primitive, the f32 matrix arithmetic of the scene-panel renderer, the   *)
(* scissor rectangles both renderers issue and the dispatch of host events *)
(* to the application and to the UI library.                               *)
(*                                                                         *)
(* Rust's i32 is modelled at its full width (two's complement, overflow    *)
(* panics when the build has overflow checks and wraps otherwise), u32 as  *)
(* two 16-bit limbs, and f32 as IEEE-754 binary32 with round-to-nearest-   *)
(* even: a finite value is (-1)^s * m * 2^e with m < 2^24.                 *)
(***************************************************************************)
EXTENDS Integers, Sequences, FiniteSets, TLC

(***************************************************************************)
(* i32 and u32                                                             *)
(***************************************************************************)
MaxI32 == 2147483647

MinI32 == -MaxI32 - 1

Limb == 65536

\* a + b overflows i32
AddOverflows(a, b) ==
    \/ b > 0 /\ a > MaxI32 - b
    \/ b < 0 /\ a < MinI32 - b

\* a - b overflows i32
SubOverflows(a, b) ==
    \/ b < 0 /\ a > MaxI32 + b
    \/ b > 0 /\ a < MinI32 + b

\* a + b in two's complement (i32::wrapping_add)
WrapAdd(a, b) ==
    IF b > 0 /\ a > MaxI32 - b THEN ((a - MaxI32) + (b - 1)) + MinI32
    ELSE IF b < 0 /\ a < MinI32 - b THEN ((a - MinI32) + (b + 1)) + MaxI32
    ELSE a + b

\* a - b in two's complement (i32::wrapping_sub)
WrapSub(a, b) ==
    IF b < 0 /\ a > MaxI32 + b THEN ((a - MaxI32) - (b + 1)) + MinI32
    ELSE IF b > 0 /\ a < MinI32 + b THEN ((a - MinI32) - (b - 1)) + MaxI32
    ELSE a - b

\* a u32 below 2^31 from its value
U32(n) == [hi |-> n \div Limb, lo |-> n % Limb]

\* i32::unsigned_abs: the magnitude of x as a u32 (2^31 for i32::MIN)
unsigned_abs(x) ==
    IF x = MinI32 THEN [hi |-> Limb \div 2, lo |-> 0]
    ELSE IF x < 0 THEN U32(-x)
    ELSE U32(x)

\* `u as i32`: the same 32 bits read as two's complement
U32AsI32(u) ==
    IF u.hi >= Limb \div 2
    THEN ((u.hi - (Limb \div 2)) * Limb + u.lo) + MinI32
    ELSE u.hi * Limb + u.lo

\* `x as u32`: the same 32 bits read as unsigned
I32AsU32(x) ==
    IF x >= 0 THEN U32(x)
    ELSE LET n == x - MinI32
         IN  [hi |-> (n \div Limb) + (Limb \div 2), lo |-> n % Limb]

(***************************************************************************)
(* f32                                                                     *)
(***************************************************************************)
MantBits == 24

MinExp == -149

MaxExp == 104

Fin(s, m, e) == [k |-> "fin", s |-> s, m |-> m, e |-> e]

Zero(s) == Fin(s, 0, 0)

Inf(s) == [k |-> "inf", s |-> s, m |-> 0, e |-> 0]

NaN == [k |-> "nan", s |-> 0, m |-> 0, e |-> 0]

RECURSIVE BitLen(_)
BitLen(n) == IF n = 0 THEN 0 ELSE 1 + BitLen(n \div 2)

Xor(a, b) == IF a = b THEN 0 ELSE 1

\* a finite result, or an infinity when the exponent is out of range
MkFin(s, m, e) ==
    IF m = 0 THEN Zero(s)
    ELSE IF e > MaxExp THEN Inf(s)
    ELSE Fin(s, m, e)

\* q, or q + 1 when that carries into a 25th bit, as an f32
RoundCarry(s, q1, e) ==
    IF q1 = 2^MantBits THEN MkFin(s, 2^(MantBits - 1), e + 1)
    ELSE MkFin(s, q1, e)

\* (q + r/(2 * half)) * 2^e rounded to nearest, ties to even
RoundNearestEven(s, q, r, half, e, sticky) ==
    RoundCarry(s,
               IF r > half \/ (r = half /\ (sticky \/ (q % 2) = 1)) THEN q + 1 ELSE q,
               e)

\* M * 2^e with the sh lowest bits of M rounded away
RoundShifted(s, M, e, sticky, sh) ==
    IF sh <= 0 THEN MkFin(s, M * 2^(-sh), e + sh)
    ELSE IF sh > 30 THEN Zero(s)
    ELSE RoundNearestEven(s, M \div 2^sh, M % 2^sh, 2^(sh - 1), e + sh, sticky)

\* The f32 nearest to (-1)^s * (M + f) * 2^e, ties to even, where 0 < f < 1
\* if sticky and f = 0 otherwise: M keeps 24 bits, fewer for a subnormal.
F32Round(s, M, e, sticky) ==
    IF M = 0 THEN Zero(s)
    ELSE RoundShifted(s, M, e, sticky,
                      IF e + (BitLen(M) - MantBits) < MinExp
                      THEN MinExp - e
                      ELSE BitLen(M) - MantBits)

\* `i as f32` for an i32
F32FromI32(i) ==
    IF i = MinI32 THEN Fin(1, 2^(MantBits - 1), 8)
    ELSE IF i < 0 THEN F32Round(1, -i, 0, FALSE)
    ELSE F32Round(0, i, 0, FALSE)

\* `u as f32` for a u32
F32FromU32(u) ==
    IF u.hi >= Limb \div 4
    THEN F32Round(0, u.hi * (Limb \div 4) + (u.lo \div 4), 2, (u.lo % 4) # 0)
    ELSE F32Round(0, u.hi * Limb + u.lo, 0, FALSE)

\* the mantissa shifted up by k bits, with its exponent
WidenBy(x, k) == [m |-> x.m * 2^k, e |-> x.e - k]

\* the mantissa shifted up to 24 bits, with its exponent
Widen(x) == WidenBy(x, MantBits - BitLen(x.m))

\* (u * 2^24 + rest) * 2^(e - 20) rounded, rest < 2^24
MulRound(s, u, rest, e) ==
    F32Round(s, u * 16 + (rest \div 1048576), e, (rest % 1048576) # 0)

\* (hh * 2^24 + t * 2^12 + lo) * 2^(e - 20) rounded, lo < 2^12
MulSum(s, hh, t, lo, e) ==
    MulRound(s, hh + (t \div 4096), (t % 4096) * 4096 + lo, e)

\* the product of the 24-bit mantissas a1 * 2^12 + a0 and b1 * 2^12 + b0,
\* by 12-bit halves so that no partial product passes 2^31
MulHalves(s, a1, a0, b1, b0, e) ==
    MulSum(s, a1 * b1, (a1 * b0 + a0 * b1) + ((a0 * b0) \div 4096),
           (a0 * b0) % 4096, e)

MulWidened(s, wa, wb) ==
    MulHalves(s, wa.m \div 4096, wa.m % 4096, wb.m \div 4096, wb.m % 4096,
              wa.e + wb.e + 20)

F32Mul(a, b) ==
    IF a.k = "nan" \/ b.k = "nan" THEN NaN
    ELSE IF a.k = "inf" \/ b.k = "inf"
    THEN IF (a.k = "fin" /\ a.m = 0) \/ (b.k = "fin" /\ b.m = 0)
         THEN NaN ELSE Inf(Xor(a.s, b.s))
    ELSE IF a.m = 0 \/ b.m = 0 THEN Zero(Xor(a.s, b.s))
    ELSE MulWidened(Xor(a.s, b.s), Widen(a), Widen(b))

F32Neg(a) == IF a.k = "nan" THEN NaN ELSE [a EXCEPT !.s = 1 - a.s]

\* A * 2^e of sign sa plus (Bq + f) * 2^e of sign sb, 0 < f < 1 if sticky
AddMagnitudes(sa, sb, A, Bq, sticky, e) ==
    IF sa # sb /\ ~sticky /\ A = Bq THEN Zero(0)
    ELSE F32Round(IF sa = sb \/ sticky \/ A > Bq THEN sa ELSE sb,
                  IF sa = sb THEN A + Bq
                  ELSE IF sticky THEN A - Bq - 1
                  ELSE IF A > Bq THEN A - Bq
                  ELSE Bq - A,
                  e, sticky)

\* a + b for finite non-zero a, b with a.e - b.e = d >= 0: three guard bits
AddAligned(a, b, d) ==
    AddMagnitudes(a.s, b.s, a.m * 8,
                  IF d >= 28 THEN 0 ELSE (b.m * 8) \div 2^d,
                  IF d >= 28 THEN TRUE ELSE ((b.m * 8) % 2^d) # 0,
                  a.e - 3)

\* a + b for finite non-zero a, b with a.e >= b.e
AddOrdered(a, b) == AddAligned(a, b, a.e - b.e)

F32Add(a, b) ==
    IF a.k = "nan" \/ b.k = "nan" THEN NaN
    ELSE IF a.k = "inf"
    THEN IF b.k = "inf" /\ a.s # b.s THEN NaN ELSE a
    ELSE IF b.k = "inf" THEN b
    ELSE IF a.m = 0 /\ b.m = 0 THEN Zero(IF a.s = b.s THEN a.s ELSE 0)
    ELSE IF a.m = 0 THEN b
    ELSE IF b.m = 0 THEN a
    ELSE IF a.e >= b.e THEN AddOrdered(a, b)
    ELSE AddOrdered(b, a)

F32Sub(a, b) == F32Add(a, F32Neg(b))

\* n more quotient bits of the long division of r by d
RECURSIVE DivBits(_, _, _, _)
DivBits(q, r, d, n) ==
    IF n = 0 THEN [q |-> q, r |-> r]
    ELSE IF 2 * r >= d THEN DivBits(2 * q + 1, 2 * r - d, d, n - 1)
    ELSE DivBits(2 * q, 2 * r, d, n - 1)

\* the quotient qr.q with remainder qr.r, times 2^e, rounded
DivRound(s, qr, e) == F32Round(s, qr.q, e, qr.r # 0)

DivWidened(s, wa, wb) ==
    DivRound(s, DivBits(wa.m \div wb.m, wa.m % wb.m, wb.m, 26), wa.e - wb.e - 26)

F32Div(a, b) ==
    IF a.k = "nan" \/ b.k = "nan" THEN NaN
    ELSE IF a.k = "inf"
    THEN IF b.k = "inf" THEN NaN ELSE Inf(Xor(a.s, b.s))
    ELSE IF b.k = "inf" THEN Zero(Xor(a.s, b.s))
    ELSE IF b.m = 0 THEN IF a.m = 0 THEN NaN ELSE Inf(Xor(a.s, b.s))
    ELSE IF a.m = 0 THEN Zero(Xor(a.s, b.s))
    ELSE DivWidened(Xor(a.s, b.s), Widen(a), Widen(b))

\* `x as i32` for an f32: truncation toward zero, saturating, NaN to 0
F32AsI32(x) ==
    IF x.k = "nan" THEN 0
    ELSE IF x.k = "inf" THEN IF x.s = 1 THEN MinI32 ELSE MaxI32
    ELSE IF x.m = 0 THEN 0
    ELSE IF x.e >= 0
    THEN IF BitLen(x.m) + x.e > 31
         THEN IF x.s = 1 THEN MinI32 ELSE MaxI32
         ELSE IF x.s = 1 THEN -(x.m * 2^(x.e)) ELSE x.m * 2^(x.e)
    ELSE IF -x.e > 30 THEN 0
    ELSE IF x.s = 1 THEN -(x.m \div 2^(-x.e)) ELSE x.m \div 2^(-x.e)

\* An f64 is held in the same form as an f32, with a mantissa of up to 31
\* bits.  `x as f32` for an f64: the nearest f32
F64AsF32(x) == IF x.k = "fin" THEN F32Round(x.s, x.m, x.e, FALSE) ELSE x

\* `x as i32` for an f64: the fraction dropped, saturating
F64AsI32(x) == F32AsI32(x)

\* IEEE equality: NaN equals nothing, the two zeros are equal
F32Eq(a, b) ==
    /\ a.k # "nan"
    /\ b.k # "nan"
    /\ \/ a = b
       \/ a.k = "fin" /\ b.k = "fin" /\ a.m = 0 /\ b.m = 0

\* a < b on f32
F32Lt(a, b) ==
    /\ a.k # "nan"
    /\ b.k # "nan"
    /\ ~F32Eq(a, b)
    /\ F32Sub(a, b).s = 1

\* a <= b on f32
F32Le(a, b) == F32Lt(a, b) \/ F32Eq(a, b)

\* f32::MIN, the most negative finite value
F32_MIN == Fin(1, 2^MantBits - 1, MaxExp)

\* f32 literals
F(i) == F32FromI32(i)

F32Half == F32Div(F(1), F(2))

(***************************************************************************)
(* Rect (geometry.rs)                                                      *)
(***************************************************************************)
Rect(l, t, r, b) == [left |-> l, top |-> t, right |-> r, bottom |-> b]

\* Rect::width overflows in `self.right - self.left`
width_overflows(r) == SubOverflows(r.right, r.left)

\* Rect::width, with the subtraction wrapped
width(r) == unsigned_abs(WrapSub(r.right, r.left))

\* Rect::height overflows in `self.top - self.bottom`
height_overflows(r) == SubOverflows(r.top, r.bottom)

\* Rect::height, with the subtraction wrapped
height(r) == unsigned_abs(WrapSub(r.top, r.bottom))

\* From<Rect> for [f32; 2] converting the signed spans
RectToF32Pair_signed(r) ==
    <<F32FromI32(WrapSub(r.right, r.left)), F32FromI32(WrapSub(r.top, r.bottom))>>

\* From<Rect> for [f32; 2]
RectToF32Pair(r) == <<F32FromU32(width(r)), F32FromU32(height(r))>>

(***************************************************************************)
(* The scene-panel conversions (xplane/src/platform.rs, renderer.rs)       *)
(***************************************************************************)
\* the (f32::MIN, f32::MIN) pair returned for a point outside the panel
Sentinel == <<F32_MIN, F32_MIN>>

\* an i32 subtraction of translate_to_imgui_space overflows
translate_to_imgui_space_overflows(g, x, y) ==
    \/ SubOverflows(x, g.left)
    \/ /\ ~(WrapSub(x, g.left) < 0)
       /\ \/ SubOverflows(g.right, g.left)
          \/ /\ ~(WrapSub(x, g.left) > WrapSub(g.right, g.left))
             /\ \/ SubOverflows(g.top, y)
                \/ /\ ~(WrapSub(g.top, y) < 0)
                   /\ SubOverflows(g.top, g.bottom)

\* The mutant of translate_to_imgui_space: the far edges are outside.
translate_to_imgui_space_exclusive(g, x, y) ==
    LET out_x == WrapSub(x, g.left)
        out_y == WrapSub(g.top, y)
    IN  IF out_x < 0 \/ out_x >= WrapSub(g.right, g.left) THEN Sentinel
        ELSE IF out_y < 0 \/ out_y >= WrapSub(g.top, g.bottom) THEN Sentinel
        ELSE <<F32FromI32(out_x), F32FromI32(out_y)>>

\* translate_to_imgui_space clamping a point outside the panel to the
\* nearest edge
translate_to_imgui_space_clamped(g, x, y) ==
    LET out_x == WrapSub(x, g.left)
        out_y == WrapSub(g.top, y)
        w     == WrapSub(g.right, g.left)
        h     == WrapSub(g.top, g.bottom)
    IN  <<F32FromI32(IF out_x < 0 THEN 0 ELSE IF out_x > w THEN w ELSE out_x),
          F32FromI32(IF out_y < 0 THEN 0 ELSE IF out_y > h THEN h ELSE out_y)>>

\* translate_to_imgui_space(window, x, y) where g is window.geometry()
translate_to_imgui_space(g, x, y) ==
    LET out_x == WrapSub(x, g.left)
        out_y == WrapSub(g.top, y)
    IN  IF out_x < 0 \/ out_x > WrapSub(g.right, g.left) THEN Sentinel
        ELSE IF out_y < 0 \/ out_y > WrapSub(g.top, g.bottom) THEN Sentinel
        ELSE <<F32FromI32(out_x), F32FromI32(out_y)>>

\* an i32 operation of translate_imgui_to_boxel overflows
translate_imgui_to_boxel_overflows(left, top, x, y) ==
    \/ AddOverflows(left, F32AsI32(x))
    \/ SubOverflows(top, F32AsI32(y))

\* The mutant of translate_imgui_to_boxel: the vertical axis is not flipped.
translate_imgui_to_boxel_unflipped(left, top, x, y) ==
    <<WrapAdd(left, F32AsI32(x)), WrapAdd(top, F32AsI32(y))>>

\* translate_imgui_to_boxel(left, top, x, y)
translate_imgui_to_boxel(left, top, x, y) ==
    <<WrapAdd(left, F32AsI32(x)), WrapSub(top, F32AsI32(y))>>

\* The mutant of mult_matrix_vec4f: the transposed product.
mult_matrix_vec4f_transposed(m, v) ==
    [i \in 0..3 |->
        F32Add(F32Add(F32Add(F32Mul(v[0], m[4 * i]), F32Mul(v[1], m[4 * i + 1])),
                      F32Mul(v[2], m[4 * i + 2])),
               F32Mul(v[3], m[4 * i + 3]))]

\* The mutant of mult_matrix_vec4f: the fourth component of v is ignored.
mult_matrix_vec4f_affine(m, v) ==
    [i \in 0..3 |->
        F32Add(F32Add(F32Mul(v[0], m[i]), F32Mul(v[1], m[4 + i])),
               F32Mul(v[2], m[8 + i]))]

\* mult_matrix_vec4f(m, v): m is indexed 0..15, v and the result 0..3
mult_matrix_vec4f(m, v) ==
    LET out0 == F32Add(F32Add(F32Add(F32Mul(v[0], m[0]), F32Mul(v[1], m[4])),
                              F32Mul(v[2], m[8])), F32Mul(v[3], m[12]))
        out1 == F32Add(F32Add(F32Add(F32Mul(v[0], m[1]), F32Mul(v[1], m[5])),
                              F32Mul(v[2], m[9])), F32Mul(v[3], m[13]))
        out2 == F32Add(F32Add(F32Add(F32Mul(v[0], m[2]), F32Mul(v[1], m[6])),
                              F32Mul(v[2], m[10])), F32Mul(v[3], m[14]))
        out3 == F32Add(F32Add(F32Add(F32Mul(v[0], m[3]), F32Mul(v[1], m[7])),
                              F32Mul(v[2], m[11])), F32Mul(v[3], m[15]))
    IN  [i \in 0..3 |-> CASE i = 0 -> out0 [] i = 1 -> out1
                          [] i = 2 -> out2 [] i = 3 -> out3]

\* the second half of boxels_to_native: the perspective divide of the clip
\* coordinates and the viewport transform
ndc_to_window(clip, viewport) ==
    LET ndc3  == F32Div(F(1), clip[3])
        ndc0  == F32Mul(clip[0], ndc3)
        ndc1  == F32Mul(clip[1], ndc3)
        out_x == F32Add(F32Mul(F32Add(F32Mul(ndc0, F32Half), F32Half),
                               F32FromI32(viewport[2])),
                        F32FromI32(viewport[0]))
        out_y == F32Add(F32Mul(F32Add(F32Mul(ndc1, F32Half), F32Half),
                               F32FromI32(viewport[3])),
                        F32FromI32(viewport[1]))
    IN  <<F32AsI32(out_x), F32AsI32(out_y)>>

\* boxels_to_native applying the projection before the modelview
boxels_to_native_projection_first(x, y, modelview, projection, viewport) ==
    ndc_to_window(
        mult_matrix_vec4f(modelview,
            mult_matrix_vec4f(projection,
                [i \in 0..3 |-> CASE i = 0 -> F32FromI32(x)
                                  [] i = 1 -> F32FromI32(y)
                                  [] i = 2 -> Zero(0)
                                  [] i = 3 -> F(1)])),
        viewport)

\* boxels_to_native(x, y, modelview, projection, viewport); viewport is
\* indexed 0..3
boxels_to_native(x, y, modelview, projection, viewport) ==
    ndc_to_window(
        mult_matrix_vec4f(projection,
            mult_matrix_vec4f(modelview,
                [i \in 0..3 |-> CASE i = 0 -> F32FromI32(x)
                                  [] i = 1 -> F32FromI32(y)
                                  [] i = 2 -> Zero(0)
                                  [] i = 3 -> F(1)])),
        viewport)

\* a 16-element matrix from its four rows of four
Mat(r0, r1, r2, r3) ==
    [i \in 0..15 |-> CASE i < 4 -> r0[i + 1] [] i \in 4..7 -> r1[i - 3]
                       [] i \in 8..11 -> r2[i - 7] [] i >= 12 -> r3[i - 11]]

\* a 4-element array indexed from 0
Arr4(a, b, c, d) ==
    [i \in 0..3 |-> CASE i = 0 -> a [] i = 1 -> b [] i = 2 -> c [] i = 3 -> d]

Identity ==
    Mat(<<F(1), F(0), F(0), F(0)>>, <<F(0), F(1), F(0), F(0)>>,
        <<F(0), F(0), F(1), F(0)>>, <<F(0), F(0), F(0), F(1)>>)

\* glOrtho(0, w, 0, h, -1, 1) as the host stores it: x' = 2x/w - 1,
\* y' = 2y/h - 1
Ortho(w, h) ==
    Mat(<<F32Div(F(2), F(w)), F(0), F(0), F(0)>>,
        <<F(0), F32Div(F(2), F(h)), F(0), F(0)>>,
        <<F(0), F(0), F(-1), F(0)>>,
        <<F(-1), F(-1), F(0), F(1)>>)

\* the same projection mirrored left to right: x' = 1 - 2x/w
OrthoFlipX(w, h) ==
    Mat(<<F32Div(F(-2), F(w)), F(0), F(0), F(0)>>,
        <<F(0), F32Div(F(2), F(h)), F(0), F(0)>>,
        <<F(0), F(0), F(-1), F(0)>>,
        <<F(1), F(-1), F(0), F(1)>>)

(***************************************************************************)
(* State                                                                   *)
(***************************************************************************)
VARIABLES
    overflow_checks,    \* the build panics on integer overflow (debug profile)
    arg,                \* the arguments of a function called on its own
    ret,                \* what that call returned
    host,               \* "xplane" or "standalone": the host the build is for
    panicked,           \* a handler has panicked
    geometry,           \* xplane: the window's rectangle, in boxels
    window,             \* xplane: the Window and what the host holds for it
    has_keyboard_focus, \* xplane: the host gives the window the keyboard
    io,                 \* the fields of imgui's Io the hosts write and read
    events,             \* standalone: the channel of pending window events
    pc,                 \* standalone: where main_loop is
    calls,              \* how many handlers have run
    trace               \* the calls the handlers made, in order

fnvars == <<arg, ret>>

sysvars == <<host, panicked, geometry, window, has_keyboard_focus, io, events, pc,
            calls, trace>>

vars == <<overflow_checks, arg, ret, host, panicked, geometry, window,
          has_keyboard_focus, io, events, pc, calls, trace>>

\* ui.rs Gravity
Gravity(left, top, right, bottom) ==
    [left |-> left, top |-> top, right |-> right, bottom |-> bottom]

\* ui.rs impl Default for Gravity
Gravity_default == Gravity(F(0), F(1), F(0), F(1))

\* no window has been created
NoWindow ==
    [created |-> FALSE, visible |-> FALSE, gravity |-> Gravity_default,
     host_gravity |-> Gravity_default]

\* no host is running: a function is called on its own
NoHost ==
    /\ host = "none"
    /\ panicked = FALSE
    /\ geometry = Rect(0, 0, 0, 0)
    /\ window = NoWindow
    /\ has_keyboard_focus = FALSE
    /\ io = <<>>
    /\ events = <<>>
    /\ pc = "none"
    /\ calls = 0
    /\ trace = <<>>

NotCalled == [fn |-> "none"]

Returned(f, v) == [fn |-> f, panic |-> FALSE, v |-> v]

Panicked(f) == [fn |-> f, panic |-> TRUE]

(***************************************************************************)
(* Rect::width and Rect::height called on any Rect a caller can build      *)
(***************************************************************************)
EdgeDelta == 1

\* i32 values at both ends of the range and around zero
Coord ==
    UNION {{MinI32 + k, MaxI32 - k, k, -k} : k \in 0..EdgeDelta}

InitRect ==
    /\ overflow_checks \in BOOLEAN
    /\ arg \in {Rect(l, t, r, b) : l \in Coord, t \in Coord, r \in Coord, b \in Coord}
    /\ ret = NotCalled
    /\ NoHost

CallWidth ==
    /\ ret = NotCalled
    /\ ret' = IF overflow_checks /\ width_overflows(arg)
              THEN Panicked("width")
              ELSE Returned("width", width(arg))
    /\ UNCHANGED <<overflow_checks, arg, sysvars>>

CallHeight ==
    /\ ret = NotCalled
    /\ ret' = IF overflow_checks /\ height_overflows(arg)
              THEN Panicked("height")
              ELSE Returned("height", height(arg))
    /\ UNCHANGED <<overflow_checks, arg, sysvars>>

NextRect == CallWidth \/ CallHeight

SpecRect == InitRect /\ [][NextRect]_vars

\* |a - b| as a u32, computed without overflow
AbsDiff(a, b) ==
    LET hi == IF a >= b THEN a ELSE b
        lo == IF a >= b THEN b ELSE a
    IN  IF lo >= 0 \/ hi < 0 \/ hi <= MaxI32 + lo THEN U32(hi - lo)
        ELSE LET n == (hi - MaxI32) - (lo + 1)
             IN  [hi |-> (n \div Limb) + (Limb \div 2), lo |-> n % Limb]

\* C9: for every Rect, width() returns |right - left| and height() returns
\* |top - bottom|, whatever the order and size of the bounds.
C9_WidthHeightAreMagnitudes ==
    /\ ret.fn = "width" =>
          /\ ~ret.panic
          /\ ret.v = AbsDiff(arg.right, arg.left)
    /\ ret.fn = "height" =>
          /\ ~ret.panic
          /\ ret.v = AbsDiff(arg.top, arg.bottom)

(***************************************************************************)
(* translate_to_imgui_space called on panel rectangles and points around   *)
(* their edges                                                             *)
(***************************************************************************)
\* the panel of the input example, the panel of the end-to-end scenario, a
\* panel with right < left, a panel with top < bottom, an empty panel
PanelRects ==
    {Rect(100, 500, 400, 200), Rect(20, 220, 220, 120),
     Rect(400, 500, 100, 200), Rect(100, 200, 400, 500),
     Rect(100, 500, 100, 500)}

NearEdges(a, b) == {a + d : d \in -EdgeDelta..EdgeDelta} \cup
                   {b + d : d \in -EdgeDelta..EdgeDelta}

InitCursor ==
    /\ overflow_checks \in BOOLEAN
    /\ \E g \in PanelRects :
         \E x \in NearEdges(g.left, g.right) \cup {150, 450} :
           \E y \in NearEdges(g.top, g.bottom) \cup {450} :
             arg = [g |-> g, x |-> x, y |-> y]
    /\ ret = NotCalled
    /\ NoHost

CallTranslateToImguiSpace ==
    /\ ret = NotCalled
    /\ ret' = IF overflow_checks /\ translate_to_imgui_space_overflows(arg.g, arg.x, arg.y)
              THEN Panicked("translate_to_imgui_space")
              ELSE Returned("translate_to_imgui_space",
                            translate_to_imgui_space(arg.g, arg.x, arg.y))
    /\ UNCHANGED <<overflow_checks, arg, sysvars>>

NextCursor == CallTranslateToImguiSpace

SpecCursor == InitCursor /\ [][NextCursor]_vars

\* the magnitude a u32 holds, for a u32 below 2^31
U32Value(u) == u.hi * Limb + u.lo

OffPanel(g, x, y) ==
    \/ x < g.left
    \/ x - g.left > g.right - g.left
    \/ y > g.top
    \/ g.top - y > g.top - g.bottom

\* C13: when the conversion fails, both returned coordinates are the
\* sentinel, never a coordinate clamped to an edge; the sentinel is negative
\* and below every coordinate an i32 can give, and every in-bounds result
\* is >= 0, so no in-bounds result equals it.
C13_FailureIsSentinel ==
    (ret.fn = "translate_to_imgui_space" /\ ~ret.panic) =>
        /\ OffPanel(arg.g, arg.x, arg.y)
              => ret.v[1] = F32_MIN /\ ret.v[2] = F32_MIN
        /\ ~OffPanel(arg.g, arg.x, arg.y)
              => F32Le(F(0), ret.v[1]) /\ F32Le(F(0), ret.v[2])
        /\ (ret.v[1] = F32_MIN) <=> (ret.v[2] = F32_MIN)
        /\ F32Lt(F32_MIN, F(0))
        /\ F32Lt(F32_MIN, F32FromI32(MinI32))

\* a point one pixel right of the panel, level with its inside, has given
\* the sentinel for both coordinates
C13_Witness ==
    /\ ret.fn = "translate_to_imgui_space"
    /\ arg = [g |-> Rect(100, 500, 400, 200), x |-> 401, y |-> 450]
    /\ ret.v = Sentinel

(***************************************************************************)
(* translate_imgui_to_boxel called on panel origins and clip-rectangle     *)
(* coordinates                                                             *)
(***************************************************************************)
MaxQuarters == 6

\* clip-rectangle coordinates: quarters of a pixel around zero, the corners
\* of the scenarios and the library's full-screen clip rectangle
ClipVals ==
    {F32Div(F(n), F(4)) : n \in -MaxQuarters..MaxQuarters} \cup
    {F(50), F(100), F(-8192), F(8192)}

PanelOrigins == {-5, 0, 20, 100, 220, 500}

InitBoxel ==
    /\ overflow_checks \in BOOLEAN
    /\ \E l \in PanelOrigins, t \in PanelOrigins, x \in ClipVals, y \in ClipVals :
         arg = [left |-> l, top |-> t, x |-> x, y |-> y]
    /\ ret = NotCalled
    /\ NoHost

CallTranslateImguiToBoxel ==
    /\ ret = NotCalled
    /\ ret' = IF /\ overflow_checks
                 /\ translate_imgui_to_boxel_overflows(arg.left, arg.top, arg.x, arg.y)
              THEN Panicked("translate_imgui_to_boxel")
              ELSE Returned("translate_imgui_to_boxel",
                            translate_imgui_to_boxel(arg.left, arg.top, arg.x, arg.y))
    /\ UNCHANGED <<overflow_checks, arg, sysvars>>

NextBoxel == CallTranslateImguiToBoxel

SpecBoxel == InitBoxel /\ [][NextBoxel]_vars

\* t is the whole pixel of the coordinate f: f with its fraction dropped
WholePixel(t, f) ==
    \/ t >= 0 /\ F32Le(F(t), f) /\ F32Lt(f, F(t + 1))
    \/ t <= 0 /\ F32Lt(F(t - 1), f) /\ F32Le(f, F(t))

\* C10: translate_imgui_to_boxel maps the UI-logical point (lx, ly) to the
\* panel-local pixel (left + lx, top - ly), lx and ly counted in whole
\* pixels: a translation horizontally, a flip around the panel top vertically.
C10_BoxelIsTranslateAndFlip ==
    ret.fn = "translate_imgui_to_boxel" =>
        /\ ~ret.panic
        /\ WholePixel(ret.v[1] - arg.left, arg.x)
        /\ WholePixel(arg.top - ret.v[2], arg.y)

\* a point off both axes has been mapped
C10_Witness ==
    /\ ret.fn = "translate_imgui_to_boxel"
    /\ arg.x = F(100)
    /\ arg.y = F(50)
    /\ arg.left = 20
    /\ arg.top = 220
    /\ ret.v = <<120, 170>>

(***************************************************************************)
(* mult_matrix_vec4f called on matrices and finite vectors                 *)
(***************************************************************************)
MaxComp == 1

VecVals == {F(k) : k \in -MaxComp..MaxComp} \cup {F32Half, F(220), Zero(1)}

\* a matrix with sixteen different entries
Dense == [i \in 0..15 |-> F(i + 1)]

Matrices == {Identity, Ortho(200, 100), Dense}

InitMatVec ==
    /\ overflow_checks = FALSE
    /\ \E m \in Matrices, a \in VecVals, b \in VecVals, c \in VecVals, d \in VecVals :
         arg = [m |-> m, v |-> Arr4(a, b, c, d)]
    /\ ret = NotCalled
    /\ NoHost

CallMultMatrixVec4f ==
    /\ ret = NotCalled
    /\ ret' = Returned("mult_matrix_vec4f", mult_matrix_vec4f(arg.m, arg.v))
    /\ UNCHANGED <<overflow_checks, arg, sysvars>>

NextMatVec == CallMultMatrixVec4f

SpecMatVec == InitMatVec /\ [][NextMatVec]_vars

\* v[0] * m[i] + ... + v[j] * m[4 * j + i], summed from the left
RECURSIVE RowVectorSum(_, _, _, _)
RowVectorSum(m, v, i, j) ==
    IF j = 0 THEN F32Mul(v[0], m[i])
    ELSE F32Add(RowVectorSum(m, v, i, j - 1), F32Mul(v[j], m[4 * j + i]))

\* C7: mult_matrix_vec4f returns out[i] = sum over j of v[j] * m[j*4 + i].
C7_RowVectorProduct ==
    ret.fn = "mult_matrix_vec4f" =>
        \A i \in 0..3 : ret.v[i] = RowVectorSum(arg.m, arg.v, i, 3)

\* a product that differs from the transposed product has been returned
C7_Witness ==
    /\ ret.fn = "mult_matrix_vec4f"
    /\ \E i \in 0..3 :
         ~F32Eq(ret.v[i],
                F32Add(F32Add(F32Add(F32Mul(arg.v[0], arg.m[4 * i]),
                                     F32Mul(arg.v[1], arg.m[4 * i + 1])),
                              F32Mul(arg.v[2], arg.m[4 * i + 2])),
                       F32Mul(arg.v[3], arg.m[4 * i + 3])))

MaxPixel == 220

NativePixels == {-5, 0, 1, 20, 119, MaxPixel}

\* the modelview of a camera moved by (tx, ty, tz)
Translate(tx, ty, tz) ==
    Mat(<<F(1), F(0), F(0), F(0)>>, <<F(0), F(1), F(0), F(0)>>,
        <<F(0), F(0), F(1), F(0)>>, <<F(tx), F(ty), F(tz), F(1)>>)

\* a perspective projection: w' = -z
Perspective ==
    Mat(<<F(1), F(0), F(0), F(0)>>, <<F(0), F(1), F(0), F(0)>>,
        <<F(0), F(0), F(-1), F(-1)>>, <<F(0), F(0), F(-2), F(0)>>)

\* the cameras: pixel-exact, pixel-exact on a larger screen, a panned
\* orthographic view, and a perspective view from three units away
NativeCameras ==
    {[modelview |-> Identity, projection |-> Ortho(200, 100),
      viewport |-> Arr4(0, 0, 200, 100)],
     [modelview |-> Identity, projection |-> Ortho(800, 600),
      viewport |-> Arr4(0, 0, 800, 600)],
     [modelview |-> Translate(10, 5, 0), projection |-> Ortho(200, 100),
      viewport |-> Arr4(40, 30, 200, 100)],
     [modelview |-> Translate(0, 0, -3), projection |-> Perspective,
      viewport |-> Arr4(0, 0, 200, 100)]}

InitNative ==
    /\ overflow_checks = FALSE
    /\ \E x \in NativePixels, y \in NativePixels, cam \in NativeCameras :
         arg = [x |-> x, y |-> y, modelview |-> cam.modelview,
                projection |-> cam.projection, viewport |-> cam.viewport]
    /\ ret = NotCalled
    /\ NoHost

CallBoxelsToNative ==
    /\ ret = NotCalled
    /\ ret' = Returned("boxels_to_native",
                       boxels_to_native(arg.x, arg.y, arg.modelview,
                                        arg.projection, arg.viewport))
    /\ UNCHANGED <<overflow_checks, arg, sysvars>>

NextNative == CallBoxelsToNative

SpecNative == InitNative /\ [][NextNative]_vars

\* the pixel (x, y) as the homogeneous point [x, y, 0, 1]
Homogeneous(x, y) == Arr4(F32FromI32(x), F32FromI32(y), Zero(0), F(1))

\* the row-vector product v * m
RowVectorProduct(m, v) == [i \in 0..3 |-> RowVectorSum(m, v, i, 3)]

\* the window coordinate of the clip-space coordinate c with weight w on a
\* viewport axis of the given origin and size
WindowCoordinate(c, w, origin, size) ==
    F32AsI32(F32Add(F32Mul(F32Add(F32Mul(F32Mul(c, F32Div(F(1), w)), F32Half),
                                  F32Half),
                           F32FromI32(size)),
                    F32FromI32(origin)))

ClipOf(a) ==
    RowVectorProduct(a.projection,
                     RowVectorProduct(a.modelview, Homogeneous(a.x, a.y)))

\* C11: boxels_to_native treats the pixel (x, y) as the point [x, y, 0, 1],
\* multiplies it by the modelview matrix and the result by the projection
\* matrix, divides by the resulting w, and maps the normalised coordinates
\* to screen_x = (ndc.x * 0.5 + 0.5) * viewport.width + viewport.x and
\* screen_y likewise; the modelview is applied before the projection.
C11_ModelviewThenProjection ==
    ret.fn = "boxels_to_native" =>
        /\ ret.v[1] = WindowCoordinate(ClipOf(arg)[0], ClipOf(arg)[3],
                                       arg.viewport[0], arg.viewport[2])
        /\ ret.v[2] = WindowCoordinate(ClipOf(arg)[1], ClipOf(arg)[3],
                                       arg.viewport[1], arg.viewport[3])

\* a pixel has been mapped under a camera whose two matrices do not commute
\* and whose w is not one
C11_Witness ==
    /\ ret.fn = "boxels_to_native"
    /\ arg.projection = Perspective
    /\ arg.x = 1
    /\ arg.y = -5
    /\ ret.v # boxels_to_native_projection_first(arg.x, arg.y, arg.modelview,
                                                  arg.projection, arg.viewport)

\* the camera maps every pixel to itself: no modelview, and a projection
\* that spans the viewport one to one
IdentityCamera(a) ==
    /\ a.modelview = Identity
    /\ a.viewport[0] = 0
    /\ a.viewport[1] = 0
    /\ a.projection = Ortho(a.viewport[2], a.viewport[3])

\* C12: under the identity camera boxels_to_native returns the pixel it was
\* given.
C12_IdentityCameraRoundTrip ==
    (ret.fn = "boxels_to_native" /\ IdentityCamera(arg)) =>
        ret.v = <<arg.x, arg.y>>

(***************************************************************************)
(* The common event vocabulary (events.rs) and the embedded key map        *)
(***************************************************************************)
MouseButtonEvent(button, action) ==
    [type |-> "MouseButton", button |-> button, action |-> action]

CursorPosEvent(x, y) == [type |-> "CursorPos", x |-> x, y |-> y]

ScrollEvent(x, y) == [type |-> "Scroll", x |-> x, y |-> y]

KeyEvent(key, ch, action, modifiers) ==
    [type |-> "Key", key |-> key, ch |-> ch, action |-> action,
     modifiers |-> modifiers]

Modifiers(control, option, shift) ==
    [control |-> control, option |-> option, shift |-> shift]

\* ui/keymap.rs to_imgui_key, for the virtual keys the model delivers;
\* "None" is Option::None
to_imgui_key(virtual_key) ==
    CASE virtual_key = "XPLM_VK_TAB" -> "Tab"
      [] virtual_key = "XPLM_VK_BACK" -> "Backspace"
      [] virtual_key = "XPLM_VK_A" -> "A"
      [] OTHER -> "None"

\* the character U+007F
DEL == 127

(***************************************************************************)
(* Calls, as the trace records them                                        *)
(***************************************************************************)
Done(tr) == [panic |-> FALSE, tr |-> tr]

Panic(tr) == [panic |-> TRUE, tr |-> tr]

\* a then b, unless a panicked
Then(a, b) == IF a.panic THEN a ELSE [panic |-> b.panic, tr |-> a.tr \o b.tr]

add_key_event(key, down) == [call |-> "io.add_key_event", key |-> key, down |-> down]

add_input_character(ch) == [call |-> "io.add_input_character", ch |-> ch]

add_mouse_pos_event(pos) == [call |-> "io.add_mouse_pos_event", pos |-> pos]

add_mouse_wheel_event(wheel) == [call |-> "io.add_mouse_wheel_event", wheel |-> wheel]

add_mouse_button_event(button, down) ==
    [call |-> "io.add_mouse_button_event", button |-> button, down |-> down]

(***************************************************************************)
(* The embedded host: platform.rs and the window delegate                  *)
(***************************************************************************)
\* The mutant of xp_platform_handle_event: a cursor position outside the
\* panel is dropped instead of being forwarded.
xp_platform_handle_event_dropping(g, event) ==
    CASE event.type = "Key" ->
           LET pressed == event.action = "Press"
               m       == event.modifiers
           IN  Done((IF event.key # "None"
                     THEN <<add_key_event(event.key, pressed)>> ELSE <<>>) \o
                    (IF pressed /\ ~m.control /\ ~m.option /\ event.ch # DEL
                     THEN <<add_input_character(event.ch)>> ELSE <<>>) \o
                    <<add_key_event("ModCtrl", m.control),
                      add_key_event("ModAlt", m.option),
                      add_key_event("ModShift", m.shift)>>)
      [] event.type = "CursorPos" ->
           IF overflow_checks /\ translate_to_imgui_space_overflows(g, event.x, event.y)
           THEN Panic(<<[call |-> "Window.geometry", ret |-> g]>>)
           ELSE IF translate_to_imgui_space(g, event.x, event.y) = Sentinel
           THEN Done(<<[call |-> "Window.geometry", ret |-> g]>>)
           ELSE Done(<<[call |-> "Window.geometry", ret |-> g],
                       add_mouse_pos_event(translate_to_imgui_space(g, event.x, event.y))>>)
      [] event.type = "Scroll" ->
           Done(<<add_mouse_wheel_event(<<F32FromI32(event.x), F32FromI32(event.y)>>)>>)
      [] event.type = "MouseButton" ->
           Done(<<add_mouse_button_event(event.button, event.action # "Release")>>)

\* Platform::handle_event without the test for the delete character
xp_platform_handle_event_typing_del(g, event) ==
    CASE event.type = "Key" ->
           LET pressed == event.action = "Press"
               m       == event.modifiers
           IN  Done((IF event.key # "None"
                     THEN <<add_key_event(event.key, pressed)>> ELSE <<>>) \o
                    (IF pressed /\ ~m.control /\ ~m.option
                     THEN <<add_input_character(event.ch)>> ELSE <<>>) \o
                    <<add_key_event("ModCtrl", m.control),
                      add_key_event("ModAlt", m.option),
                      add_key_event("ModShift", m.shift)>>)
      [] event.type = "CursorPos" ->
           IF overflow_checks /\ translate_to_imgui_space_overflows(g, event.x, event.y)
           THEN Panic(<<[call |-> "Window.geometry", ret |-> g]>>)
           ELSE Done(<<[call |-> "Window.geometry", ret |-> g],
                       add_mouse_pos_event(translate_to_imgui_space(g, event.x, event.y))>>)
      [] event.type = "Scroll" ->
           Done(<<add_mouse_wheel_event(<<F32FromI32(event.x), F32FromI32(event.y)>>)>>)
      [] event.type = "MouseButton" ->
           Done(<<add_mouse_button_event(event.button, event.action # "Release")>>)

\* platform::handle_event(io, window, event), where g is what
\* window.geometry() returns
xp_platform_handle_event(g, event) ==
    CASE event.type = "Key" ->
           LET pressed == event.action = "Press"
               m       == event.modifiers
           IN  Done((IF event.key # "None"
                     THEN <<add_key_event(event.key, pressed)>> ELSE <<>>) \o
                    (IF pressed /\ ~m.control /\ ~m.option /\ event.ch # DEL
                     THEN <<add_input_character(event.ch)>> ELSE <<>>) \o
                    <<add_key_event("ModCtrl", m.control),
                      add_key_event("ModAlt", m.option),
                      add_key_event("ModShift", m.shift)>>)
      [] event.type = "CursorPos" ->
           IF overflow_checks /\ translate_to_imgui_space_overflows(g, event.x, event.y)
           THEN Panic(<<[call |-> "Window.geometry", ret |-> g]>>)
           ELSE Done(<<[call |-> "Window.geometry", ret |-> g],
                       add_mouse_pos_event(translate_to_imgui_space(g, event.x, event.y))>>)
      [] event.type = "Scroll" ->
           Done(<<add_mouse_wheel_event(<<F32FromI32(event.x), F32FromI32(event.y)>>)>>)
      [] event.type = "MouseButton" ->
           Done(<<add_mouse_button_event(event.button, event.action # "Release")>>)

\* The mutant of xp_delegate_handle_event: the event goes to the UI library
\* whatever the application answered.
xp_delegate_handle_event_always(g, event, consumed) ==
    Then(Done(<<[call |-> "Delegate.handle_event", event |-> event],
                [call |-> "App.handle_event", event |-> event, ret |-> consumed],
                [call |-> "Platform.handle_event", event |-> event]>>),
         xp_platform_handle_event(g, event))

\* WindowDelegate::handle_event(window, event); consumed is what the
\* application's handle_event returns
xp_delegate_handle_event(g, event, consumed) ==
    Then(Done(<<[call |-> "Delegate.handle_event", event |-> event],
                [call |-> "App.handle_event", event |-> event, ret |-> consumed]>>),
         IF ~consumed
         THEN Then(Done(<<[call |-> "Platform.handle_event", event |-> event]>>),
                   xp_platform_handle_event(g, event))
         ELSE Done(<<>>))

(***************************************************************************)
(* Draw data and the common render loop (renderer_common.rs)               *)
(***************************************************************************)
Elements(count, clip_rect, texture_id, idx_offset) ==
    [cmd |-> "Elements", count |-> count, clip_rect |-> clip_rect,
     texture_id |-> texture_id, idx_offset |-> idx_offset]

ResetRenderState == [cmd |-> "ResetRenderState"]

RawCallback == [cmd |-> "RawCallback"]

\* a clip rectangle [x, y, z, w] given in quarters of a logical pixel
ClipQ(x, y, z, w) ==
    Arr4(F32Div(F(x), F(4)), F32Div(F(y), F(4)), F32Div(F(z), F(4)), F32Div(F(w), F(4)))

\* the end of the closure below: the scissor rectangle from the two
\* transformed corners (n_left, n_top) and (n_right, n_bottom), and the draw
xp_scissor_and_draw(c, n1, n2) ==
    LET n_left   == n1[1]
        n_top    == n1[2]
        n_right  == n2[1]
        n_bottom == n2[2]
        bind == [call |-> "XPLMBindTexture2d", texture_id |-> c.texture_id]
    IN  IF overflow_checks /\
           (SubOverflows(n_right, n_left) \/ SubOverflows(n_top, n_bottom))
        THEN Panic(<<bind>>)
        ELSE Done(<<bind,
                    [call |-> "gl.Scissor", x |-> n_left, y |-> n_bottom,
                     width |-> WrapSub(n_right, n_left),
                     height |-> WrapSub(n_top, n_bottom),
                     clip_rect |-> c.clip_rect],
                    [call |-> "gl.DrawElements", count |-> c.count,
                     idx_offset |-> c.idx_offset]>>)

\* the closure renderer.rs passes to the common loop: ctx carries what it
\* captured (left, top and the three datarefs' values)
xp_draw_element_fn(ctx, c) ==
    LET x == c.clip_rect[0]
        y == c.clip_rect[1]
        z == c.clip_rect[2]
        w == c.clip_rect[3]
        b1 == translate_imgui_to_boxel(ctx.left, ctx.top, x, y)
        b2 == translate_imgui_to_boxel(ctx.left, ctx.top, z, w)
    IN  IF c.texture_id.hi >= Limb \div 2
        THEN Panic(<<>>)
        ELSE IF overflow_checks /\
                (\/ translate_imgui_to_boxel_overflows(ctx.left, ctx.top, x, y)
                 \/ translate_imgui_to_boxel_overflows(ctx.left, ctx.top, z, w))
        THEN Panic(<<[call |-> "XPLMBindTexture2d", texture_id |-> c.texture_id]>>)
        ELSE xp_scissor_and_draw(c,
                 boxels_to_native(b1[1], b1[2], ctx.modelview, ctx.projection, ctx.viewport),
                 boxels_to_native(b2[1], b2[2], ctx.modelview, ctx.projection, ctx.viewport))

\* The mutant of sa_draw_element_fn: the vertical axis is not flipped.
sa_draw_element_fn_unflipped(ctx, c) ==
    LET x == c.clip_rect[0]
        y == c.clip_rect[1]
        z == c.clip_rect[2]
        w == c.clip_rect[3]
    IN  Done(<<[call |-> "gl.BindTexture", texture_id |-> c.texture_id],
               [call |-> "gl.Scissor",
                x |-> F32AsI32(F32Mul(x, ctx.scale_w)),
                y |-> F32AsI32(F32Mul(w, ctx.scale_h)),
                width |-> F32AsI32(F32Mul(F32Sub(z, x), ctx.scale_w)),
                height |-> F32AsI32(F32Mul(F32Sub(w, y), ctx.scale_h)),
                clip_rect |-> c.clip_rect],
               [call |-> "gl.DrawElements", count |-> c.count,
                idx_offset |-> c.idx_offset]>>)

\* the closure src/standalone/renderer.rs passes to the common loop
sa_draw_element_fn(ctx, c) ==
    LET x == c.clip_rect[0]
        y == c.clip_rect[1]
        z == c.clip_rect[2]
        w == c.clip_rect[3]
    IN  Done(<<[call |-> "gl.BindTexture", texture_id |-> c.texture_id],
               [call |-> "gl.Scissor",
                x |-> F32AsI32(F32Mul(x, ctx.scale_w)),
                y |-> F32AsI32(F32Sub(ctx.fb_height, F32Mul(w, ctx.scale_h))),
                width |-> F32AsI32(F32Mul(F32Sub(z, x), ctx.scale_w)),
                height |-> F32AsI32(F32Mul(F32Sub(w, y), ctx.scale_h)),
                clip_rect |-> c.clip_rect],
               [call |-> "gl.DrawElements", count |-> c.count,
                idx_offset |-> c.idx_offset]>>)

draw_element_fn(ctx, c) ==
    IF ctx.host = "xplane" THEN xp_draw_element_fn(ctx, c) ELSE sa_draw_element_fn(ctx, c)

RECURSIVE render_commands_skipping(_, _, _)
\* the command loop passing over what is not an Elements command
render_commands_skipping(ctx, commands, i) ==
    IF i > Len(commands) THEN Done(<<>>)
    ELSE IF commands[i].cmd = "Elements"
         THEN Then(draw_element_fn(ctx, commands[i]),
                   render_commands_skipping(ctx, commands, i + 1))
         ELSE render_commands_skipping(ctx, commands, i + 1)

RECURSIVE render_commands(_, _, _)
\* for cmd in draw_list.commands(), from the i-th on
render_commands(ctx, commands, i) ==
    IF i > Len(commands) THEN Done(<<>>)
    ELSE IF commands[i].cmd = "Elements"
         THEN Then(draw_element_fn(ctx, commands[i]), render_commands(ctx, commands, i + 1))
         ELSE Panic(<<>>)

RECURSIVE render(_, _, _)
\* renderer_common::render: for draw_list in draw_data.draw_lists(), from
\* the i-th on
render(ctx, draw_lists, i) ==
    IF i > Len(draw_lists) THEN Done(<<>>)
    ELSE Then(Then(Done(<<[call |-> "gl.VertexPointer", list |-> i],
                          [call |-> "gl.TexCoordPointer", list |-> i],
                          [call |-> "gl.ColorPointer", list |-> i]>>),
                   render_commands(ctx, draw_lists[i], 1)),
              render(ctx, draw_lists, i + 1))

(***************************************************************************)
(* The embedded host: renderer.rs, prepare_frame and the draw callback     *)
(***************************************************************************)
DataRefGet(name, v) == [call |-> "DataRef.get", name |-> name, ret |-> v]

\* renderer.rs setup_render_state(left, top): the graphics calls it makes
xp_setup_render_state(left, top) ==
    [call |-> "setup_render_state", left |-> left, top |-> top,
     gl |-> <<"XPLMSetGraphicsState", "PushClientAttrib", "PushAttrib",
              "Disable(CULL_FACE)", "Enable(SCISSOR_TEST)",
              "EnableClientState(VERTEX_ARRAY)",
              "EnableClientState(TEXTURE_COORD_ARRAY)",
              "EnableClientState(COLOR_ARRAY)", "Enable(TEXTURE_2D)",
              "MatrixMode(PROJECTION)", "PushMatrix", "Scalef", "Translatef">>]

\* restore_render_state leaving the client attributes pushed
xp_restore_render_state_short ==
    [call |-> "restore_render_state",
     gl |-> <<"MatrixMode(PROJECTION)", "PopMatrix",
              "DisableClientState(VERTEX_ARRAY)",
              "DisableClientState(COLOR_ARRAY)",
              "DisableClientState(TEXTURE_COORD_ARRAY)", "PopAttrib">>]

\* renderer.rs restore_render_state()
xp_restore_render_state ==
    [call |-> "restore_render_state",
     gl |-> <<"MatrixMode(PROJECTION)", "PopMatrix",
              "DisableClientState(VERTEX_ARRAY)",
              "DisableClientState(COLOR_ARRAY)",
              "DisableClientState(TEXTURE_COORD_ARRAY)", "PopAttrib",
              "PopClientAttrib">>]

\* Renderer::render drawing with a camera read once, before the first frame
xp_render_cached(rect, cam, draw_lists) ==
    LET ctx == [host |-> "xplane", left |-> rect.left, top |-> rect.top,
                modelview |-> Identity, projection |-> Ortho(200, 100),
                viewport |-> Arr4(0, 0, 200, 100)]
    IN  IF overflow_checks /\ rect.top = MinI32
        THEN Panic(<<[call |-> "Renderer.render", rect |-> rect]>>)
        ELSE Then(Done(<<[call |-> "Renderer.render", rect |-> rect],
                         xp_setup_render_state(rect.left, rect.top),
                         DataRefGet("sim/graphics/view/modelview_matrix", cam.modelview),
                         DataRefGet("sim/graphics/view/projection_matrix", cam.projection),
                         DataRefGet("sim/graphics/view/viewport", cam.viewport),
                         [call |-> "Context.render", ret |-> draw_lists]>>),
                  Then(render(ctx, draw_lists, 1),
                       Done(<<xp_restore_render_state>>)))

\* Renderer::render(imgui, rect); cam is what the three datarefs hold and
\* draw_lists what imgui.render() returns
xp_render(rect, cam, draw_lists) ==
    LET ctx == [host |-> "xplane", left |-> rect.left, top |-> rect.top,
                modelview |-> cam.modelview, projection |-> cam.projection,
                viewport |-> cam.viewport]
    IN  IF overflow_checks /\ rect.top = MinI32
        THEN Panic(<<[call |-> "Renderer.render", rect |-> rect]>>)
        ELSE Then(Done(<<[call |-> "Renderer.render", rect |-> rect],
                         xp_setup_render_state(rect.left, rect.top),
                         DataRefGet("sim/graphics/view/modelview_matrix", cam.modelview),
                         DataRefGet("sim/graphics/view/projection_matrix", cam.projection),
                         DataRefGet("sim/graphics/view/viewport", cam.viewport),
                         [call |-> "Context.render", ret |-> draw_lists]>>),
                  Then(render(ctx, draw_lists, 1),
                       Done(<<xp_restore_render_state>>)))

\* prepare_frame taking the keyboard focus whenever it is wanted, held or not
prepare_frame_eager(io0, focus, g, frame_rate_period) ==
    LET io1 == [io0 EXCEPT !.display_framebuffer_scale = <<F(1), F(1)>>,
                           !.display_size = RectToF32Pair(g),
                           !.delta_time = IF F32Le(frame_rate_period, Zero(0))
                                          THEN F32Div(F(1), F(60))
                                          ELSE frame_rate_period]
        head == <<[call |-> "Platform.prepare_frame"],
                  [call |-> "Window.geometry", ret |-> g]>>
        read == <<DataRefGet("sim/operation/misc/frame_rate_period", frame_rate_period),
                  [call |-> "Window.has_keyboard_focus", ret |-> focus]>>
    IN  IF overflow_checks /\ (width_overflows(g) \/ height_overflows(g))
        THEN [panic |-> TRUE, tr |-> head, io |-> io0, focus |-> focus]
        ELSE IF io0.want_capture_keyboard
        THEN [panic |-> FALSE, io |-> io1, focus |-> TRUE,
              tr |-> head \o read \o <<[call |-> "Window.take_keyboard_focus"]>>]
        ELSE IF ~io0.want_capture_keyboard /\ focus
        THEN [panic |-> FALSE, io |-> io1, focus |-> FALSE,
              tr |-> head \o read \o
                     <<[call |-> "Window.release_keyboard_focus"],
                       [call |-> "io.keys_down.fill", v |-> FALSE],
                       add_key_event("ModCtrl", FALSE),
                       add_key_event("ModAlt", FALSE),
                       add_key_event("ModShift", FALSE)>>]
        ELSE [panic |-> FALSE, io |-> io1, focus |-> focus, tr |-> head \o read]

\* Platform::prepare_frame(io, window): the new io, the new focus and the
\* calls made
prepare_frame(io0, focus, g, frame_rate_period) ==
    LET io1 == [io0 EXCEPT !.display_framebuffer_scale = <<F(1), F(1)>>,
                           !.display_size = RectToF32Pair(g),
                           !.delta_time = IF F32Le(frame_rate_period, Zero(0))
                                          THEN F32Div(F(1), F(60))
                                          ELSE frame_rate_period]
        head == <<[call |-> "Platform.prepare_frame"],
                  [call |-> "Window.geometry", ret |-> g]>>
        read == <<DataRefGet("sim/operation/misc/frame_rate_period", frame_rate_period),
                  [call |-> "Window.has_keyboard_focus", ret |-> focus]>>
    IN  IF overflow_checks /\ (width_overflows(g) \/ height_overflows(g))
        THEN [panic |-> TRUE, tr |-> head, io |-> io0, focus |-> focus]
        ELSE IF io0.want_capture_keyboard /\ ~focus
        THEN [panic |-> FALSE, io |-> io1, focus |-> TRUE,
              tr |-> head \o read \o <<[call |-> "Window.take_keyboard_focus"]>>]
        ELSE IF ~io0.want_capture_keyboard /\ focus
        THEN [panic |-> FALSE, io |-> io1, focus |-> FALSE,
              tr |-> head \o read \o
                     <<[call |-> "Window.release_keyboard_focus"],
                       [call |-> "io.keys_down.fill", v |-> FALSE],
                       add_key_event("ModCtrl", FALSE),
                       add_key_event("ModAlt", FALSE),
                       add_key_event("ModShift", FALSE)>>]
        ELSE [panic |-> FALSE, io |-> io1, focus |-> focus, tr |-> head \o read]

\* the outcome r of a handler, with the io and the focus it leaves
WithState(r, io1, focus) ==
    [panic |-> r.panic, tr |-> r.tr, io |-> io1, focus |-> focus]

\* WindowDelegate::draw after its call of prepare_frame, which returned pf
xp_draw_prepared(pf, g, want, cam, draw_lists) ==
    WithState(Then(Done(<<[call |-> "Delegate.draw"],
                          [call |-> "Window.geometry", ret |-> g]>>),
                   Then([panic |-> pf.panic, tr |-> pf.tr],
                        Then(Done(<<[call |-> "Context.new_frame",
                                     display_size |-> pf.io.display_size,
                                     delta_time |-> pf.io.delta_time],
                                    [call |-> "App.draw_ui"]>>),
                             xp_render(g, cam, draw_lists)))),
              IF pf.panic THEN pf.io
              ELSE [pf.io EXCEPT !.want_capture_keyboard = want],
              pf.focus)

\* WindowDelegate::draw(window); want is what the UI library decides about
\* the keyboard while it builds the frame
xp_delegate_draw(io0, focus, g, frame_rate_period, want, cam, draw_lists) ==
    xp_draw_prepared(prepare_frame(io0, focus, g, frame_rate_period),
                     g, want, cam, draw_lists)

(***************************************************************************)
(* What the embedded host delivers                                         *)
(***************************************************************************)
HostPanels == {Rect(20, 220, 220, 120), Rect(100, 500, 400, 200)}

Camera(modelview, projection, viewport) ==
    [modelview |-> modelview, projection |-> projection, viewport |-> viewport]

\* identity modelview, pixels 1:1 onto a 200x100 viewport at (0, 0)
CamPixel == Camera(Identity, Ortho(200, 100), Arr4(0, 0, 200, 100))

\* the same with the x axis flipped
CamFlipX == Camera(Identity, OrthoFlipX(200, 100), Arr4(0, 0, 200, 100))

CamLarge == Camera(Identity, Ortho(800, 600), Arr4(0, 0, 800, 600))

DrawScenario == << <<Elements(6, ClipQ(0, 0, 400, 200), U32(1), 0)>> >>

DrawTwoLists ==
    << <<Elements(6, ClipQ(40, 0, 440, 40), U32(1), 0),
         Elements(3, ClipQ(2, 1, 43, 82), U32(2), 6)>>,
       <<Elements(3, ClipQ(0, 0, 800, 400), U32(1), 0)>> >>

DrawNothing == <<>>

DrawReset == << <<Elements(6, ClipQ(0, 0, 400, 200), U32(1), 0), ResetRenderState>> >>

DrawRaw == << <<RawCallback>> >>

\* a texture id above i32::MAX
DrawBigTexture ==
    << <<Elements(6, ClipQ(0, 0, 400, 200), [hi |-> Limb \div 2, lo |-> 0], 0)>> >>

FramePeriod == F32Div(F(1), F(50))

XPFrames ==
    {[cam |-> CamPixel, draw_lists |-> DrawScenario, frame_rate_period |-> FramePeriod],
     [cam |-> CamFlipX, draw_lists |-> DrawScenario, frame_rate_period |-> Zero(0)],
     [cam |-> CamLarge, draw_lists |-> DrawTwoLists, frame_rate_period |-> F32Neg(F(1))],
     [cam |-> CamPixel, draw_lists |-> DrawNothing, frame_rate_period |-> FramePeriod],
     [cam |-> CamPixel, draw_lists |-> DrawReset, frame_rate_period |-> FramePeriod],
     [cam |-> CamLarge, draw_lists |-> DrawRaw, frame_rate_period |-> FramePeriod],
     [cam |-> CamPixel, draw_lists |-> DrawBigTexture, frame_rate_period |-> FramePeriod]}

MouseStatuses == {"xplm_MouseDown", "xplm_MouseDrag", "xplm_MouseUp"}

\* (key, flags, virtual_key) as the host passes them to handle_key
KeyPresses ==
    {[key |-> 97, flags |-> {"xplm_DownFlag"}, virtual_key |-> "XPLM_VK_A"],
     [key |-> 97, flags |-> {"xplm_UpFlag"}, virtual_key |-> "XPLM_VK_A"],
     [key |-> 97, flags |-> {"xplm_DownFlag", "xplm_ControlFlag"}, virtual_key |-> "XPLM_VK_A"],
     [key |-> 65, flags |-> {"xplm_DownFlag", "xplm_ShiftFlag"}, virtual_key |-> "XPLM_VK_A"],
     [key |-> 97, flags |-> {"xplm_OptionAltFlag"}, virtual_key |-> "XPLM_VK_A"],
     [key |-> DEL, flags |-> {"xplm_DownFlag"}, virtual_key |-> "XPLM_VK_BACK"],
     [key |-> 0, flags |-> {}, virtual_key |-> "XPLM_VK_F13"],
     [key |-> -23, flags |-> {"xplm_DownFlag"}, virtual_key |-> "XPLM_VK_F13"]}

flag_set(flags, flag) == flag \in flags

\* `key as u8 as char` for a c_char in -128..127
c_char_as_char(key) == (key + 256) % 256

CursorPoints == {<<150, 450>>, <<450, 450>>, <<20, 220>>}

\* (wheel, clicks) as the host passes them to handle_mouse_wheel
WheelTurns == {<<0, 2>>, <<0, -1>>, <<1, 1>>}

\* how many handlers the model runs
MaxCalls == 2

\* imgui's Io as Context::create and Platform::init leave it
XPInitIo ==
    [display_size |-> <<F(-1), F(-1)>>,
     display_framebuffer_scale |-> <<F(1), F(1)>>,
     delta_time |-> F32Div(F(1), F(60)),
     want_capture_keyboard |-> FALSE]

(***************************************************************************)
(* From<Rect> for [f32; 2] and Platform::prepare_frame called on the       *)
(* rectangles of InitRect                                                  *)
(***************************************************************************)
CallRectInto ==
    /\ ret = NotCalled
    /\ ret' = IF overflow_checks /\ (width_overflows(arg) \/ height_overflows(arg))
              THEN Panicked("into")
              ELSE Returned("into", RectToF32Pair(arg))
    /\ UNCHANGED <<overflow_checks, arg, sysvars>>

\* the display size the frame is prepared with
DisplaySizeOf(pf) ==
    IF pf.panic THEN Panicked("prepare_frame")
    ELSE Returned("prepare_frame", pf.io.display_size)

CallPrepareFrame ==
    /\ ret = NotCalled
    /\ \E want \in BOOLEAN, focus \in BOOLEAN :
          ret' = DisplaySizeOf(
                     prepare_frame([XPInitIo EXCEPT !.want_capture_keyboard = want],
                                   focus, arg, FramePeriod))
    /\ UNCHANGED <<overflow_checks, arg, sysvars>>

NextDisplaySize == CallRectInto \/ CallPrepareFrame

SpecDisplaySize == InitRect /\ [][NextDisplaySize]_vars

\* p is a nearest f32 to the u32 u, and is not negative
NearestF32OfU32(p, u) ==
    /\ p.k = "fin"
    /\ p.s = 0
    /\ IF u.hi < 256
       THEN /\ p.e <= 0
            /\ BitLen(u.hi * Limb + u.lo) - p.e <= MantBits
            /\ p.m = (u.hi * Limb + u.lo) * 2^(-p.e)
       ELSE /\ p.e \in 1..8
            /\ p.m >= 2^(MantBits - 1)
            /\ p.m < 2^MantBits
            /\ u.hi * 256 + u.lo \div 256 < 2^(16 + p.e)
            /\ LET q == (u.hi * 256 + u.lo \div 256) * 2^(8 - p.e)
                        + (u.lo % 256) \div 2^(p.e)
                   r == (u.lo % 256) % 2^(p.e)
               IN  \/ p.m = q /\ 2 * r <= 2^(p.e)
                   \/ p.m = q + 1 /\ 2 * r >= 2^(p.e)

RequiredSources ==
    <<"sim/operation/misc/frame_rate_period",
      "sim/graphics/view/modelview_matrix",
      "sim/graphics/view/viewport",
      "sim/graphics/view/projection_matrix">>

\* DataRef::find(name) where the host publishes the sources in found
DataRefFind(name, found) ==
    [call |-> "DataRef.find", name |-> name,
     ret |-> IF name \in found THEN "Ok" ELSE "Err(FindError)"]

\* Platform::init(imgui).expect(..): a panic when it returns Err
xp_platform_init(found) ==
    LET tr == <<[call |-> "Platform.init"], DataRefFind(RequiredSources[1], found)>>
    IN  IF RequiredSources[1] \in found THEN Done(tr) ELSE Panic(tr)

\* the lookups a ? chain makes for the sources names[i..]: it ends at the
\* first one not found
RECURSIVE find_each(_, _, _)
find_each(names, found, i) ==
    IF i > Len(names) THEN Done(<<>>)
    ELSE IF names[i] \in found
    THEN Then(Done(<<DataRefFind(names[i], found)>>), find_each(names, found, i + 1))
    ELSE Panic(<<DataRefFind(names[i], found)>>)

\* Renderer::new(imgui).expect(..): a panic when it returns Err
xp_renderer_new(found) ==
    Then(Done(<<[call |-> "Renderer.new"], [call |-> "bind_texture"],
                [call |-> "add_fonts"]>>),
         find_each(RequiredSources, found, 2))

\* an i32 operation of the window rectangle overflows
init_rect_overflows(bounds, x, y, w, h) ==
    \/ AddOverflows(bounds.left, U32AsI32(x))
    \/ SubOverflows(bounds.top, U32AsI32(y))
    \/ AddOverflows(WrapAdd(bounds.left, U32AsI32(x)), U32AsI32(w))
    \/ SubOverflows(WrapSub(bounds.top, U32AsI32(y)), U32AsI32(h))

\* the window rectangle of init: x, y, w (width) and h (height) are u32
init_rect(bounds, x, y, w, h) ==
    Rect(WrapAdd(bounds.left, U32AsI32(x)),
         WrapSub(bounds.top, U32AsI32(y)),
         WrapAdd(WrapAdd(bounds.left, U32AsI32(x)), U32AsI32(w)),
         WrapSub(WrapSub(bounds.top, U32AsI32(y)), U32AsI32(h)))

\* what init does once platform and renderer exist
xp_init_window(bounds, x, y, w, h) ==
    IF overflow_checks /\ init_rect_overflows(bounds, x, y, w, h)
    THEN Panic(<<[call |-> "Context.set_ini_filename", name |-> "None"],
                 [call |-> "Context.set_log_filename", name |-> "None"],
                 [call |-> "get_screen_bounds", ret |-> bounds]>>)
    ELSE Done(<<[call |-> "Context.set_ini_filename", name |-> "None"],
                [call |-> "Context.set_log_filename", name |-> "None"],
                [call |-> "get_screen_bounds", ret |-> bounds],
                [call |-> "WindowDelegate.new"],
                [call |-> "Window.create",
                 rect |-> init_rect(bounds, x, y, w, h),
                 decoration |-> "RoundRectangle", layer |-> "FloatingWindows",
                 positioning_mode |-> "Free"],
                [call |-> "Window.set_visible", visible |-> FALSE],
                [call |-> "Window.set_gravity",
                 gravity |-> Gravity(F(0), F(1), F(1), F(0))]>>)

\* init going on to the window whatever the lookups returned
xp_init_unchecked(found, bounds, x, y, w, h) ==
    Then(Done(<<[call |-> "init"], [call |-> "Context.create"]>>),
         Then(Done(xp_platform_init(found).tr),
              Then(Done(xp_renderer_new(found).tr),
                   xp_init_window(bounds, x, y, w, h))))

\* init(title, x, y, width, height, app)
xp_init(found, bounds, x, y, w, h) ==
    Then(Done(<<[call |-> "init"], [call |-> "Context.create"]>>),
         Then(xp_platform_init(found),
              Then(xp_renderer_new(found),
                   xp_init_window(bounds, x, y, w, h))))

\* the screens of the host: one monitor, and two with the second on the left
ScreenBounds == {Rect(0, 1080, 1920, 0), Rect(-1920, 1080, 1920, 0)}

InitOffsets == {U32(0), U32(100), [hi |-> Limb - 1, lo |-> Limb - 1]}

InitSizes == {U32(200), U32(MaxI32)}

(***************************************************************************)
(* ui.rs Window: the struct's gravity field, and the visibility and the    *)
(* gravity the host holds for the window id                                *)
(***************************************************************************)
\* Window::create: gravity: Gravity::default(), params.visible = 1
window_create ==
    [created |-> TRUE, visible |-> TRUE, gravity |-> Gravity_default,
     host_gravity |-> Gravity_default]

\* Window::visible: XPLMGetWindowIsVisible(self.id) != 0
window_visible(w) == w.visible

\* Window::set_visible: XPLMSetWindowIsVisible(self.id, i32::from(visible))
window_set_visible(w, visible) == [w EXCEPT !.visible = visible]

\* toggle_visible returning the visibility it found
window_toggle_visible_stale(w) ==
    LET new_visibility == ~window_visible(w)
    IN  [w |-> window_set_visible(w, new_visibility), ret |-> window_visible(w),
         tr |-> <<[call |-> "Window.visible", ret |-> window_visible(w)],
                  [call |-> "Window.set_visible", visible |-> new_visibility]>>]

\* Window::toggle_visible: the window afterwards, what is returned and the
\* calls made
window_toggle_visible(w) ==
    LET new_visibility == ~window_visible(w)
    IN  [w |-> window_set_visible(w, new_visibility), ret |-> new_visibility,
         tr |-> <<[call |-> "Window.visible", ret |-> window_visible(w)],
                  [call |-> "Window.set_visible", visible |-> new_visibility]>>]

\* Window::gravity: &self.gravity
window_gravity(w) == w.gravity

\* Window::set_gravity: XPLMSetWindowGravity(self.id, ..) and nothing else
window_set_gravity(w, gravity) == [w EXCEPT !.host_gravity = gravity]

\* the window after the call recorded in entry e
window_call(w, e) ==
    CASE e.call = "Window.create" -> window_create
      [] e.call = "Window.set_visible" -> window_set_visible(w, e.visible)
      [] e.call = "Window.set_gravity" -> window_set_gravity(w, e.gravity)
      [] OTHER -> w

RECURSIVE window_calls(_, _, _)
\* the window after the first n calls of tr
window_calls(w, tr, n) ==
    IF n = 0 THEN w ELSE window_call(window_calls(w, tr, n - 1), tr[n])

\* the window as init leaves it
InitialWindow ==
    window_set_gravity(window_set_visible(window_create, FALSE),
                       Gravity(F(0), F(1), F(1), F(0)))

\* the plugin before init: which sources the host publishes, and the
\* arguments of the call
InitEmbedded ==
    /\ overflow_checks \in BOOLEAN
    /\ \E found \in SUBSET {RequiredSources[k] : k \in 1..4},
          bounds \in ScreenBounds, x \in InitOffsets, y \in InitOffsets,
          w \in InitSizes, h \in InitSizes :
         arg = [found |-> found, bounds |-> bounds, x |-> x, y |-> y,
                width |-> w, height |-> h]
    /\ ret = NotCalled
    /\ host = "none"
    /\ panicked = FALSE
    /\ geometry = Rect(0, 0, 0, 0)
    /\ window = NoWindow
    /\ has_keyboard_focus = FALSE
    /\ io = <<>>
    /\ events = <<>>
    /\ pc = "init"
    /\ calls = 0
    /\ trace = <<>>

\* the plugin after init returned or panicked
Initialised(r) ==
    /\ trace' = r.tr
    /\ panicked' = r.panic
    /\ host' = IF r.panic THEN "none" ELSE "xplane"
    /\ geometry' = IF r.panic THEN geometry ELSE r.tr[Len(r.tr) - 2].rect
    /\ window' = window_calls(window, r.tr, Len(r.tr))
    /\ io' = IF r.panic THEN io ELSE XPInitIo
    /\ pc' = IF r.panic THEN "none" ELSE "callback"

XP_Init ==
    /\ pc = "init"
    /\ Initialised(xp_init(arg.found, arg.bounds, arg.x, arg.y, arg.width, arg.height))
    /\ UNCHANGED <<overflow_checks, arg, ret, has_keyboard_focus, events, calls>>

NextInit == XP_Init

SpecInit == InitEmbedded /\ [][NextInit]_vars

\* the host window or its delegate has been created
WindowExists ==
    \E i \in 1..Len(trace) : trace[i].call \in {"Window.create", "WindowDelegate.new"}

\* C16: if any of the required host data sources (frame-rate period,
\* modelview matrix, viewport, projection matrix) cannot be found, the
\* embedded init panics before the host window is created: after a failed
\* init there is no window and no delegate.
C16_MissingSourceAbortsInit ==
    (pc # "init" /\ \E k \in 1..4 : RequiredSources[k] \notin arg.found) =>
        /\ panicked
        /\ ~WindowExists
        /\ host = "none"
        /\ trace[Len(trace)].call = "DataRef.find"
        /\ trace[Len(trace)].ret # "Ok"

\* init has failed on the last source it looks up, after finding the others
C16_Witness ==
    /\ pc # "init"
    /\ arg.found = {RequiredSources[k] : k \in 1..3}
    /\ panicked
    /\ Len(trace) = 10
    /\ trace[10].name = "sim/graphics/view/projection_matrix"

XPInit ==
    /\ host = "xplane"
    /\ geometry \in HostPanels
    /\ window = InitialWindow
    /\ has_keyboard_focus = FALSE
    /\ io = XPInitIo
    /\ events = <<>>
    /\ pc = "callback"

\* a callback of the embedded host has run
XPCallback(r) ==
    /\ host = "xplane"
    /\ ~panicked
    /\ calls < MaxCalls
    /\ calls' = calls + 1
    /\ trace' = trace \o r.tr
    /\ panicked' = r.panic
    /\ UNCHANGED <<overflow_checks, arg, ret, host, geometry, window, events, pc>>

\* handle_mouse_click taking everything but mouse-down for a release
XP_HandleMouseClick_down_only ==
    \E status \in MouseStatuses, consumed \in BOOLEAN :
        LET action == IF status = "xplm_MouseDown" THEN "Press" ELSE "Release"
            event  == MouseButtonEvent("Left", action)
        IN  /\ XPCallback(Then(Then(Done(<<[call |-> "handle_mouse_click", status |-> status]>>),
                                    xp_delegate_handle_event(geometry, event, consumed)),
                               Done(<<[call |-> "return", fn |-> "handle_mouse_click", ret |-> 1]>>)))
            /\ UNCHANGED <<io, has_keyboard_focus>>

\* ui.rs handle_mouse_click
XP_HandleMouseClick ==
    \E status \in MouseStatuses, consumed \in BOOLEAN :
        LET action == IF status = "xplm_MouseUp" THEN "Release" ELSE "Press"
            event  == MouseButtonEvent("Left", action)
        IN  /\ XPCallback(Then(Then(Done(<<[call |-> "handle_mouse_click", status |-> status]>>),
                                    xp_delegate_handle_event(geometry, event, consumed)),
                               Done(<<[call |-> "return", fn |-> "handle_mouse_click", ret |-> 1]>>)))
            /\ UNCHANGED <<io, has_keyboard_focus>>

\* ui.rs handle_right_click
XP_HandleRightClick ==
    \E status \in MouseStatuses, consumed \in BOOLEAN :
        LET action == IF status = "xplm_MouseUp" THEN "Release" ELSE "Press"
            event  == MouseButtonEvent("Right", action)
        IN  /\ XPCallback(Then(Then(Done(<<[call |-> "handle_right_click", status |-> status]>>),
                                    xp_delegate_handle_event(geometry, event, consumed)),
                               Done(<<[call |-> "return", fn |-> "handle_right_click", ret |-> 1]>>)))
            /\ UNCHANGED <<io, has_keyboard_focus>>

\* handle_key forwarding the key whether or not the window is losing focus
XP_HandleKey_ignoring_focus ==
    \E k \in KeyPresses, losing_focus \in {0, 1}, consumed \in BOOLEAN :
        LET action == IF flag_set(k.flags, "xplm_UpFlag") THEN "Release" ELSE "Press"
            modifiers == Modifiers(flag_set(k.flags, "xplm_ControlFlag"),
                                   flag_set(k.flags, "xplm_OptionAltFlag"),
                                   flag_set(k.flags, "xplm_ShiftFlag"))
            event == KeyEvent(to_imgui_key(k.virtual_key), c_char_as_char(k.key),
                              action, modifiers)
            entry == <<[call |-> "handle_key", key |-> k.key, flags |-> k.flags,
                        virtual_key |-> k.virtual_key, losing_focus |-> losing_focus]>>
        IN  /\ XPCallback(Then(Done(entry),
                               xp_delegate_handle_event(geometry, event, consumed)))
            /\ UNCHANGED <<io, has_keyboard_focus>>

\* ui.rs handle_key
XP_HandleKey ==
    \E k \in KeyPresses, losing_focus \in {0, 1}, consumed \in BOOLEAN :
        LET action == IF flag_set(k.flags, "xplm_UpFlag") THEN "Release" ELSE "Press"
            modifiers == Modifiers(flag_set(k.flags, "xplm_ControlFlag"),
                                   flag_set(k.flags, "xplm_OptionAltFlag"),
                                   flag_set(k.flags, "xplm_ShiftFlag"))
            event == KeyEvent(to_imgui_key(k.virtual_key), c_char_as_char(k.key),
                              action, modifiers)
            entry == <<[call |-> "handle_key", key |-> k.key, flags |-> k.flags,
                        virtual_key |-> k.virtual_key, losing_focus |-> losing_focus]>>
        IN  /\ XPCallback(IF losing_focus = 0
                          THEN Then(Done(entry),
                                    xp_delegate_handle_event(geometry, event, consumed))
                          ELSE Done(entry))
            /\ UNCHANGED <<io, has_keyboard_focus>>

\* ui.rs handle_cursor
XP_HandleCursor ==
    \E p \in CursorPoints, consumed \in BOOLEAN :
        LET event == CursorPosEvent(p[1], p[2])
        IN  /\ XPCallback(Then(Then(Done(<<[call |-> "handle_cursor", x |-> p[1], y |-> p[2]]>>),
                                    xp_delegate_handle_event(geometry, event, consumed)),
                               Done(<<[call |-> "return", fn |-> "handle_cursor",
                                       ret |-> "xplm_CursorDefault"]>>)))
            /\ UNCHANGED <<io, has_keyboard_focus>>

\* ui.rs handle_mouse_wheel
XP_HandleMouseWheel ==
    \E t \in WheelTurns, consumed \in BOOLEAN :
        LET wheel  == t[1]
            clicks == t[2]
            event  == IF wheel = 0 THEN ScrollEvent(0, clicks) ELSE ScrollEvent(clicks, 0)
        IN  /\ XPCallback(Then(Then(Done(<<[call |-> "handle_mouse_wheel", wheel |-> wheel,
                                            clicks |-> clicks]>>),
                                    xp_delegate_handle_event(geometry, event, consumed)),
                               Done(<<[call |-> "return", fn |-> "handle_mouse_wheel", ret |-> 1]>>)))
            /\ UNCHANGED <<io, has_keyboard_focus>>

\* a callback has run and leaves the io and the focus of r
XPCallbackWithState(r) ==
    /\ XPCallback(r)
    /\ io' = r.io
    /\ has_keyboard_focus' = r.focus

\* ui.rs draw_window
XP_DrawWindow ==
    \E f \in XPFrames, want \in BOOLEAN :
        XPCallbackWithState(
            xp_delegate_draw(io, has_keyboard_focus, geometry, f.frame_rate_period,
                             want, f.cam, f.draw_lists))

(***************************************************************************)
(* The standalone host: window events, from_event, Platform::handle_event  *)
(* A window event's coordinates are f64 values: converted on use.          *)
(***************************************************************************)
WE_MouseButton(button, action) ==
    [type |-> "WindowEvent::MouseButton", button |-> button, action |-> action]

WE_CursorPos(x, y) == [type |-> "WindowEvent::CursorPos", x |-> x, y |-> y]

WE_Scroll(x, y) == [type |-> "WindowEvent::Scroll", x |-> x, y |-> y]

WE_Key(key, action, modifiers) ==
    [type |-> "WindowEvent::Key", key |-> key, action |-> action, modifiers |-> modifiers]

WE_Char(ch) == [type |-> "WindowEvent::Char", ch |-> ch]

WE_Size(w, h) == [type |-> "WindowEvent::Size", width |-> w, height |-> h]

WE_Focus(focused) == [type |-> "WindowEvent::Focus", focused |-> focused]

\* Option::None where an event is expected
NoEvent == [type |-> "None"]

\* the standalone key map, for the keys the model delivers
glfw_to_imgui_key(key) ==
    CASE key = "A" -> "A"
      [] key = "Backspace" -> "Backspace"
      [] key = "LeftShift" -> "LeftShift"
      [] key = "RightControl" -> "RightCtrl"
      [] OTHER -> "None"

\* to_common_action taking a repeat for a press
to_common_action_repeating(action) ==
    CASE action = "Release" -> "Release"
      [] action = "Press" -> "Press"
      [] action = "Repeat" -> "Press"

\* "None" is Option::None
to_common_action(action) ==
    CASE action = "Release" -> "Release"
      [] action = "Press" -> "Press"
      [] action = "Repeat" -> "None"

from_event(event) ==
    CASE event.type = "WindowEvent::MouseButton" ->
           IF to_common_action(event.action) # "None"
           THEN CASE event.button = "Button1" ->
                       MouseButtonEvent("Left", to_common_action(event.action))
                  [] event.button = "Button2" ->
                       MouseButtonEvent("Right", to_common_action(event.action))
                  [] OTHER -> NoEvent
           ELSE NoEvent
      [] event.type = "WindowEvent::CursorPos" ->
           CursorPosEvent(F64AsI32(event.x), F64AsI32(event.y))
      [] event.type = "WindowEvent::Scroll" ->
           ScrollEvent(F64AsI32(event.x), F64AsI32(event.y))
      [] event.type = "WindowEvent::Key" ->
           IF to_common_action(event.action) # "None"
           THEN KeyEvent(glfw_to_imgui_key(event.key), 0, to_common_action(event.action),
                         Modifiers("Control" \in event.modifiers,
                                   "Alt" \in event.modifiers,
                                   "Shift" \in event.modifiers))
           ELSE NoEvent
      [] OTHER -> NoEvent

\* Platform::handle_event treating the cursor as the embedded host does: a
\* position outside the window is replaced by the sentinel
sa_platform_handle_event_bounded(io0, event) ==
    CASE event.type = "WindowEvent::Key" ->
           IF event.action = "Repeat" THEN [io |-> io0, tr |-> <<>>]
           ELSE LET pressed == event.action = "Press"
                    key == event.key
                IN  [io |-> io0,
                     tr |-> (IF glfw_to_imgui_key(key) # "None"
                             THEN <<add_key_event(glfw_to_imgui_key(key), pressed)>>
                             ELSE <<>>) \o
                            (IF key \in {"LeftShift", "RightShift"}
                             THEN <<add_key_event("ModShift", pressed)>> ELSE <<>>) \o
                            (IF key \in {"LeftControl", "RightControl"}
                             THEN <<add_key_event("ModCtrl", pressed)>> ELSE <<>>) \o
                            (IF key \in {"LeftAlt", "RightAlt"}
                             THEN <<add_key_event("ModAlt", pressed)>> ELSE <<>>) \o
                            (IF key \in {"LeftSuper", "RightSuper"}
                             THEN <<add_key_event("ModSuper", pressed)>> ELSE <<>>)]
      [] event.type = "WindowEvent::Size" ->
           [io |-> [io0 EXCEPT !.display_size =
                        <<F32FromI32(event.width), F32FromI32(event.height)>>],
            tr |-> <<>>]
      [] event.type = "WindowEvent::Char" ->
           [io |-> io0,
            tr |-> IF event.ch # DEL THEN <<add_input_character(event.ch)>> ELSE <<>>]
      [] event.type = "WindowEvent::CursorPos" ->
           [io |-> io0,
            tr |-> <<add_mouse_pos_event(
                       IF \/ F32Lt(F64AsF32(event.x), F(0))
                          \/ F32Lt(F64AsF32(event.y), F(0))
                          \/ F32Lt(io0.display_size[1], F64AsF32(event.x))
                          \/ F32Lt(io0.display_size[2], F64AsF32(event.y))
                       THEN Sentinel
                       ELSE <<F64AsF32(event.x), F64AsF32(event.y)>>)>>]
      [] event.type = "WindowEvent::Scroll" ->
           [io |-> io0, tr |-> <<add_mouse_wheel_event(<<F64AsF32(event.x),
                                                F64AsF32(event.y)>>)>>]
      [] event.type = "WindowEvent::MouseButton" ->
           LET button == CASE event.button = "Button1" -> "Left"
                           [] event.button = "Button2" -> "Right"
                           [] event.button = "Button3" -> "Middle"
                           [] event.button = "Button4" -> "Extra1"
                           [] OTHER -> "Extra2"
           IN  [io |-> io0,
                tr |-> <<add_mouse_button_event(button, event.action = "Press")>>]
      [] OTHER -> [io |-> io0, tr |-> <<>>]

\* Platform::handle_event(io, window, event): the new io and the calls made
sa_platform_handle_event(io0, event) ==
    CASE event.type = "WindowEvent::Key" ->
           IF event.action = "Repeat" THEN [io |-> io0, tr |-> <<>>]
           ELSE LET pressed == event.action = "Press"
                    key == event.key
                IN  [io |-> io0,
                     tr |-> (IF glfw_to_imgui_key(key) # "None"
                             THEN <<add_key_event(glfw_to_imgui_key(key), pressed)>>
                             ELSE <<>>) \o
                            (IF key \in {"LeftShift", "RightShift"}
                             THEN <<add_key_event("ModShift", pressed)>> ELSE <<>>) \o
                            (IF key \in {"LeftControl", "RightControl"}
                             THEN <<add_key_event("ModCtrl", pressed)>> ELSE <<>>) \o
                            (IF key \in {"LeftAlt", "RightAlt"}
                             THEN <<add_key_event("ModAlt", pressed)>> ELSE <<>>) \o
                            (IF key \in {"LeftSuper", "RightSuper"}
                             THEN <<add_key_event("ModSuper", pressed)>> ELSE <<>>)]
      [] event.type = "WindowEvent::Size" ->
           [io |-> [io0 EXCEPT !.display_size =
                        <<F32FromI32(event.width), F32FromI32(event.height)>>],
            tr |-> <<>>]
      [] event.type = "WindowEvent::Char" ->
           [io |-> io0,
            tr |-> IF event.ch # DEL THEN <<add_input_character(event.ch)>> ELSE <<>>]
      [] event.type = "WindowEvent::CursorPos" ->
           [io |-> io0, tr |-> <<add_mouse_pos_event(<<F64AsF32(event.x), F64AsF32(event.y)>>)>>]
      [] event.type = "WindowEvent::Scroll" ->
           [io |-> io0, tr |-> <<add_mouse_wheel_event(<<F64AsF32(event.x),
                                                F64AsF32(event.y)>>)>>]
      [] event.type = "WindowEvent::MouseButton" ->
           LET button == CASE event.button = "Button1" -> "Left"
                           [] event.button = "Button2" -> "Right"
                           [] event.button = "Button3" -> "Middle"
                           [] event.button = "Button4" -> "Extra1"
                           [] OTHER -> "Extra2"
           IN  [io |-> io0,
                tr |-> <<add_mouse_button_event(button, event.action = "Press")>>]
      [] OTHER -> [io |-> io0, tr |-> <<>>]

\* standalone/renderer.rs setup_render_state(fb_width, fb_height, ..): the
\* graphics calls it makes
sa_setup_render_state(fb_width, fb_height) ==
    [call |-> "setup_render_state", fb_width |-> fb_width, fb_height |-> fb_height,
     gl |-> <<"PushAttrib", "Enable(BLEND)", "BlendFunc", "Disable(CULL_FACE)",
              "Disable(DEPTH_TEST)", "Disable(STENCIL_TEST)", "Disable(LIGHTING)",
              "Disable(COLOR_MATERIAL)", "Enable(SCISSOR_TEST)",
              "EnableClientState(VERTEX_ARRAY)",
              "EnableClientState(TEXTURE_COORD_ARRAY)",
              "EnableClientState(COLOR_ARRAY)", "DisableClientState(NORMAL_ARRAY)",
              "Enable(TEXTURE_2D)", "PolygonMode", "ShadeModel", "TexEnvi",
              "Viewport", "MatrixMode(PROJECTION)", "PushMatrix", "LoadIdentity",
              "Ortho", "MatrixMode(MODELVIEW)", "PushMatrix", "LoadIdentity">>]

\* standalone/renderer.rs restore_render_state()
sa_restore_render_state ==
    [call |-> "restore_render_state",
     gl |-> <<"DisableClientState(COLOR_ARRAY)",
              "DisableClientState(TEXTURE_COORD_ARRAY)",
              "DisableClientState(VERTEX_ARRAY)", "MatrixMode(MODELVIEW)",
              "PopMatrix", "MatrixMode(PROJECTION)", "PopMatrix", "PopAttrib">>]

\* src/standalone/renderer.rs render(ctx); draw_lists is what ctx.render()
\* returns
sa_render(io0, draw_lists) ==
    LET size_w == io0.display_size[1]
        size_h == io0.display_size[2]
        scale_w == io0.display_framebuffer_scale[1]
        scale_h == io0.display_framebuffer_scale[2]
        fb_width == F32Mul(size_w, scale_w)
        fb_height == F32Mul(size_h, scale_h)
        ctx == [host |-> "standalone", scale_w |-> scale_w, scale_h |-> scale_h,
                fb_height |-> fb_height]
    IN  Then(Done(<<[call |-> "render", display_size |-> io0.display_size,
                     display_framebuffer_scale |-> io0.display_framebuffer_scale],
                    [call |-> "Context.render", ret |-> draw_lists],
                    sa_setup_render_state(fb_width, fb_height)>>),
             Then(render(ctx, draw_lists, 1),
                  Done(<<sa_restore_render_state>>)))

(***************************************************************************)
(* The standalone host: main_loop                                          *)
(***************************************************************************)
\* a cursor position given in quarters of a pixel
Q(q) == F32Div(F(q), F(4))

\* the f64 -(100 + 2^-20): a position left of the window that no f32 holds
OffWindow == Fin(1, 100 * 2^20 + 1, -20)

\* what one wait_events_timeout can leave in the channel
Batches ==
    {<<>>,
     <<WE_CursorPos(Q(42), Q(81)), WE_CursorPos(OffWindow, Q(202))>>,
     <<WE_MouseButton("Button1", "Press"), WE_MouseButton("Button1", "Release")>>,
     <<WE_MouseButton("Button3", "Press"), WE_MouseButton("Button2", "Repeat")>>,
     <<WE_Key("A", "Press", {}), WE_Char(97)>>,
     <<WE_Key("LeftShift", "Repeat", {"Shift"}), WE_Key("RightControl", "Release", {"Control"})>>,
     <<WE_Char(DEL), WE_Scroll(Q(0), Q(-4))>>,
     <<WE_Size(200, 100), WE_Focus(TRUE)>>}

SAFrames == {DrawScenario, DrawTwoLists, DrawReset}

\* (width, height, content scale) of the window at init
Windows == {<<800, 600, 1>>, <<200, 100, 2>>}

\* how many times the model goes round main_loop
MaxIterations == 2

\* imgui's Io as attach_window leaves it
SAInit ==
    /\ host = "standalone"
    /\ geometry = Rect(0, 0, 0, 0)
    /\ window = NoWindow
    /\ has_keyboard_focus = FALSE
    /\ \E w \in Windows :
          io = [display_size |-> <<F32FromI32(w[1]), F32FromI32(w[2])>>,
                display_framebuffer_scale |-> <<F(w[3]), F(w[3])>>]
    /\ events = <<>>
    /\ pc = "wait_events"

\* glfw.wait_events_timeout(0.1)
SA_WaitEvents ==
    /\ host = "standalone"
    /\ ~panicked
    /\ pc = "wait_events"
    /\ calls < MaxIterations
    /\ \E batch \in Batches :
          /\ events' = batch
          /\ trace' = Append(trace, [call |-> "glfw.wait_events_timeout",
                                     posted |-> batch])
    /\ pc' = "dispatch"
    /\ UNCHANGED <<overflow_checks, arg, ret, host, panicked, geometry, window,
                   has_keyboard_focus, io, calls>>

\* one turn of the loop over events.try_iter(); consumed is what the
\* application's handle_event returns when it is asked
sa_dispatch(io0, event, consumed) ==
    LET app_event == from_event(event)
        fwd == sa_platform_handle_event(io0, event)
    IN  IF app_event # NoEvent /\ consumed
        THEN [io |-> io0,
              tr |-> <<[call |-> "WindowEvent", event |-> event],
                       [call |-> "App.handle_event", event |-> app_event,
                        ret |-> consumed]>>]
        ELSE [io |-> fwd.io,
              tr |-> <<[call |-> "WindowEvent", event |-> event]>> \o
                     (IF app_event # NoEvent
                      THEN <<[call |-> "App.handle_event", event |-> app_event,
                              ret |-> consumed]>>
                      ELSE <<>>) \o
                     <<[call |-> "Platform.handle_event", event |-> event]>> \o fwd.tr]

SA_Dispatch ==
    /\ host = "standalone"
    /\ ~panicked
    /\ pc = "dispatch"
    /\ events # <<>>
    /\ \E consumed \in BOOLEAN :
          LET r == sa_dispatch(io, Head(events), consumed)
          IN  /\ io' = r.io
              /\ trace' = trace \o r.tr
    /\ events' = Tail(events)
    /\ UNCHANGED <<overflow_checks, arg, ret, host, panicked, geometry, window,
                   has_keyboard_focus, pc, calls>>

\* the frame r has been drawn
SAFrameDone(r) ==
    /\ trace' = trace \o r.tr
    /\ panicked' = r.panic

\* the rest of the loop body, entered whether or not the channel is empty
SA_Frame_early ==
    /\ host = "standalone"
    /\ ~panicked
    /\ pc = "dispatch"
    /\ \E draw_lists \in SAFrames :
          SAFrameDone(Then(Done(<<[call |-> "io.update_delta_time"],
                                  [call |-> "Context.new_frame",
                                   display_size |-> io.display_size],
                                  [call |-> "App.draw_ui"],
                                  [call |-> "gl.Clear"]>>),
                           Then(sa_render(io, draw_lists),
                                Done(<<[call |-> "Window.swap_buffers"]>>))))
    /\ pc' = "wait_events"
    /\ calls' = calls + 1
    /\ UNCHANGED <<overflow_checks, arg, ret, host, geometry, window, has_keyboard_focus,
                   io, events>>

\* the rest of the loop body, once the channel is empty
SA_Frame ==
    /\ host = "standalone"
    /\ ~panicked
    /\ pc = "dispatch"
    /\ events = <<>>
    /\ \E draw_lists \in SAFrames :
          SAFrameDone(Then(Done(<<[call |-> "io.update_delta_time"],
                                  [call |-> "Context.new_frame",
                                   display_size |-> io.display_size],
                                  [call |-> "App.draw_ui"],
                                  [call |-> "gl.Clear"]>>),
                           Then(sa_render(io, draw_lists),
                                Done(<<[call |-> "Window.swap_buffers"]>>))))
    /\ pc' = "wait_events"
    /\ calls' = calls + 1
    /\ UNCHANGED <<overflow_checks, arg, ret, host, geometry, window, has_keyboard_focus,
                   io, events>>

(***************************************************************************)
(* The two hosts                                                           *)
(***************************************************************************)
Init ==
    /\ overflow_checks \in BOOLEAN
    /\ arg = <<>>
    /\ ret = NotCalled
    /\ panicked = FALSE
    /\ calls = 0
    /\ trace = <<>>
    /\ (XPInit \/ SAInit)

Next ==
    \/ XP_HandleMouseClick
    \/ XP_HandleRightClick
    \/ XP_HandleKey
    \/ XP_HandleCursor
    \/ XP_HandleMouseWheel
    \/ XP_DrawWindow
    \/ SA_WaitEvents
    \/ SA_Dispatch
    \/ SA_Frame

Spec == Init /\ [][Next]_vars

(***************************************************************************)
(* C1: event routing                                                       *)
(***************************************************************************)
\* the trace entries where the host hands an event to the library
IsDelivery(e) == e.call \in {"Delegate.handle_event", "WindowEvent"}

IsOffer(e) == e.call = "App.handle_event"

IsForward(e) == e.call = "Platform.handle_event"

\* the application-level form of a delivered event ("WindowEvent" entries
\* carry the window system's event, the embedded host's carry the common one)
AppForm(e) == IF e.call = "WindowEvent" THEN from_event(e.event) ELSE e.event

\* the delivery at i was offered to the application, which consumed it
ConsumedAt(i) ==
    /\ i < Len(trace)
    /\ IsOffer(trace[i + 1])
    /\ trace[i + 1].ret

RECURSIVE EventsWhere(_, _)
\* the events of the first n entries of the trace that satisfy keep, in order
EventsWhere(keep(_), n) ==
    IF n = 0 THEN <<>>
    ELSE IF keep(n) THEN Append(EventsWhere(keep, n - 1), trace[n].event)
         ELSE EventsWhere(keep, n - 1)

KeepForward(i) == IsForward(trace[i])

KeepNotConsumed(i) == IsDelivery(trace[i]) /\ ~ConsumedAt(i)

\* C1: in both hosts every delivered event that has an application-level
\* form is offered to App::handle_event before anything else is done with
\* it; the UI library's handler is called for an event if and only if the
\* application did not consume it (it answered false, or the event has no
\* application-level form and was never offered); and the events the UI
\* library receives are exactly the delivered events not consumed, in
\* delivery order.
C1_EventRouting ==
    /\ \A i \in 1..Len(trace) :
          /\ IsDelivery(trace[i]) /\ AppForm(trace[i]) # NoEvent =>
                /\ i < Len(trace)
                /\ IsOffer(trace[i + 1])
                /\ trace[i + 1].event = AppForm(trace[i])
          /\ IsDelivery(trace[i]) /\ AppForm(trace[i]) = NoEvent =>
                /\ i < Len(trace)
                /\ IsForward(trace[i + 1])
                /\ trace[i + 1].event = trace[i].event
          /\ IsOffer(trace[i]) =>
                /\ i > 1
                /\ IsDelivery(trace[i - 1])
                /\ AppForm(trace[i - 1]) = trace[i].event
                /\ ~trace[i].ret =>
                      /\ i < Len(trace)
                      /\ IsForward(trace[i + 1])
                      /\ trace[i + 1].event = trace[i - 1].event
                /\ trace[i].ret =>
                      \/ i = Len(trace)
                      \/ ~IsForward(trace[i + 1])
          /\ IsForward(trace[i]) =>
                /\ i > 1
                /\ \/ IsOffer(trace[i - 1]) /\ ~trace[i - 1].ret
                   \/ IsDelivery(trace[i - 1]) /\ AppForm(trace[i - 1]) = NoEvent
    /\ EventsWhere(KeepForward, Len(trace)) = EventsWhere(KeepNotConsumed, Len(trace))

\* two events were delivered, the first consumed by the application and
\* the second not, so that the UI library received the second only
C1_Witness ==
    \E i, j \in 1..Len(trace) :
        /\ i < j
        /\ j < Len(trace)
        /\ IsOffer(trace[i]) /\ trace[i].ret
        /\ IsOffer(trace[j]) /\ ~trace[j].ret
        /\ IsForward(trace[j + 1])
        /\ Len(EventsWhere(KeepForward, Len(trace))) = 1

(***************************************************************************)
(* C3: a cursor position outside the panel                                 *)
(***************************************************************************)
\* the entries where the embedded host's platform handler gets a cursor
\* position
IsCursorForward(i) ==
    /\ host = "xplane"
    /\ IsForward(trace[i])
    /\ trace[i].event.type = "CursorPos"

\* the cursor (x, y) is on the panel g, edges included
OnPanel(g, x, y) ==
    /\ 0 <= x - g.left /\ x - g.left <= g.right - g.left
    /\ 0 <= g.top - y /\ g.top - y <= g.top - g.bottom

\* C3 as stated: in the embedded host no mouse-position event carrying the
\* out-of-bounds result reaches the UI library; only in-bounds cursor
\* positions do.
C3_OutOfBoundsCursorDropped ==
    host = "xplane" =>
        \A i \in 1..Len(trace) :
            trace[i].call = "io.add_mouse_pos_event" => trace[i].pos # Sentinel

\* C3, amended: every CursorPos event the embedded host's platform handler
\* gets is forwarded to the UI library as one mouse-position event, which
\* carries the panel-relative position when the cursor is on the panel and
\* the sentinel (f32::MIN, f32::MIN) when it is not.
C3_OutOfBoundsCursorForwardedAsSentinel ==
    \A i \in 1..Len(trace) :
        IsCursorForward(i) /\ ~panicked =>
            /\ i + 2 <= Len(trace)
            /\ trace[i + 2].call = "io.add_mouse_pos_event"
            /\ LET e == trace[i].event
               IN  trace[i + 2].pos =
                       IF OnPanel(geometry, e.x, e.y)
                       THEN <<F(e.x - geometry.left), F(geometry.top - e.y)>>
                       ELSE Sentinel

\* a cursor position off the panel was handled, and the UI library got the
\* sentinel
C3_Witness ==
    \E i \in 1..Len(trace) :
        /\ IsCursorForward(i)
        /\ ~OnPanel(geometry, trace[i].event.x, trace[i].event.y)
        /\ i + 2 <= Len(trace)
        /\ trace[i + 2].call = "io.add_mouse_pos_event"
        /\ trace[i + 2].pos = Sentinel

(***************************************************************************)
(* C4, C5: the embedded host's scissor rectangles                          *)
(***************************************************************************)
IsScissor(i) == trace[i].call = "gl.Scissor"

\* the imgui.render() call of the frame the entry i belongs to
FrameOf(i) ==
    CHOOSE j \in 1..i :
        /\ trace[j].call = "Context.render"
        /\ \A k \in (j + 1)..i : trace[k].call # "Context.render"

\* C4: every scissor rectangle the embedded renderer issues has a
\* non-negative width and a non-negative height, also under a camera that
\* flips an axis.
C4_ScissorSpansNonNegative ==
    host = "xplane" =>
        \A i \in 1..Len(trace) :
            IsScissor(i) => trace[i].width >= 0 /\ trace[i].height >= 0

\* C5: with the panel at (20, 220, 220, 120), an identity modelview, the
\* projection that maps pixels 1:1 onto the 200x100 viewport at (0, 0) and
\* the clip rectangle [0, 0, 100, 50], the scissor rectangle issued is
\* (20, 170, 100, 50).
C5_EndToEndScenario ==
    host = "xplane" /\ geometry = Rect(20, 220, 220, 120) =>
        \A i \in 1..Len(trace) :
            /\ IsScissor(i)
            /\ trace[i].clip_rect = ClipQ(0, 0, 400, 200)
            /\ trace[FrameOf(i) - 3].ret = Identity
            /\ trace[FrameOf(i) - 2].ret = Ortho(200, 100)
            /\ trace[FrameOf(i) - 1].ret = Arr4(0, 0, 200, 100)
            => /\ trace[i].x = 20
               /\ trace[i].y = 170
               /\ trace[i].width = 100
               /\ trace[i].height = 50

(***************************************************************************)
(* C6: the standalone host's scissor rectangles                            *)
(***************************************************************************)
\* integer division that rounds toward zero
TruncDiv(a, b) == IF a >= 0 THEN a \div b ELSE -((-a) \div b)

\* a value that is a whole number of quarters, in quarters
Quarters(f) == F32AsI32(F32Mul(f, F(4)))

\* the render(ctx) call of the frame the entry i belongs to
RenderOf(i) ==
    CHOOSE j \in 1..i :
        /\ trace[j].call = "render"
        /\ \A k \in (j + 1)..i : trace[k].call # "render"

\* C6: in the standalone host, for the clip rectangle [x0, y0, x1, y1] and
\* the scale (scale_x, scale_y), the scissor origin is
\* (x0 * scale_x, fb_height - y1 * scale_y) with
\* fb_height = display height * scale_y, and its size is
\* ((x1 - x0) * scale_x, (y1 - y0) * scale_y), each converted to an integer
\* by dropping the fraction.
C6_StandaloneScissor ==
    host = "standalone" =>
        \A i \in 1..Len(trace) :
            IsScissor(i) =>
                LET r  == trace[RenderOf(i)]
                    sx == F32AsI32(r.display_framebuffer_scale[1])
                    sy == F32AsI32(r.display_framebuffer_scale[2])
                    h  == F32AsI32(r.display_size[2])
                    x0 == Quarters(trace[i].clip_rect[0])
                    y0 == Quarters(trace[i].clip_rect[1])
                    x1 == Quarters(trace[i].clip_rect[2])
                    y1 == Quarters(trace[i].clip_rect[3])
                IN  /\ trace[i].x = TruncDiv(x0 * sx, 4)
                    /\ trace[i].y = TruncDiv(4 * h * sy - y1 * sy, 4)
                    /\ trace[i].width = TruncDiv((x1 - x0) * sx, 4)
                    /\ trace[i].height = TruncDiv((y1 - y0) * sy, 4)

\* the corner (10, 10) was mapped at scale 1 on a framebuffer 600 high, to
\* (10, 590), and a clip rectangle with fractional corners was mapped too
C6_Witness ==
    /\ host = "standalone"
    /\ \E i \in 1..Len(trace) :
          /\ IsScissor(i)
          /\ trace[i].clip_rect = ClipQ(40, 0, 440, 40)
          /\ trace[RenderOf(i)].display_size[2] = F(600)
          /\ trace[RenderOf(i)].display_framebuffer_scale = <<F(1), F(1)>>
          /\ trace[i].x = 10
          /\ trace[i].y = 590
    /\ \E i \in 1..Len(trace) :
          /\ IsScissor(i)
          /\ trace[i].clip_rect = ClipQ(2, 1, 43, 82)

\* the magnitude of the difference of two naturals
Distance(a, b) == IF a >= b THEN a - b ELSE b - a

\* p is the f64 x itself when an f32 can hold x, and otherwise an f32 next
\* to x, at most half a unit of its last place away
SameAsF32(p, x) ==
    /\ p.k = "fin"
    /\ x.k = "fin"
    /\ p.m < 2^MantBits
    /\ \/ p.m = 0 /\ x.m = 0
       \/ /\ p.s = x.s
          /\ p.e >= x.e
          /\ p.e - x.e < 8
          /\ 2 * Distance(p.m * 2^(p.e - x.e), x.m) <= 2^(p.e - x.e)

\* the standalone host hands the cursor position of entry i to its platform
IsStandaloneCursor(i) ==
    /\ trace[i].call = "Platform.handle_event"
    /\ trace[i].event.type = "WindowEvent::CursorPos"

\* C14: in the standalone host every cursor position that the application
\* does not consume is forwarded to the UI library with the x and y it was
\* reported with (as the f32 of the reported f64); no position is rejected
\* and no sentinel is produced.
C14_StandaloneCursorPassThrough ==
    \A i \in 1..Len(trace) :
        /\ (/\ trace[i].call = "WindowEvent"
            /\ trace[i].event.type = "WindowEvent::CursorPos"
            /\ ~ConsumedAt(i)) =>
               /\ i + 2 <= Len(trace)
               /\ IsStandaloneCursor(i + 2)
               /\ trace[i + 2].event = trace[i].event
        /\ IsStandaloneCursor(i) =>
               /\ i < Len(trace)
               /\ trace[i + 1].call = "io.add_mouse_pos_event"
               /\ SameAsF32(trace[i + 1].pos[1], trace[i].event.x)
               /\ SameAsF32(trace[i + 1].pos[2], trace[i].event.y)
               /\ trace[i + 1].pos[1] # F32_MIN
               /\ trace[i + 1].pos[2] # F32_MIN

\* a position inside the window and one left of it, reported with more
\* digits than an f32 holds, have both been forwarded
C14_Witness ==
    /\ \E i \in 1..Len(trace) :
          /\ IsStandaloneCursor(i)
          /\ trace[i].event = WE_CursorPos(Q(42), Q(81))
          /\ trace[i + 1].pos = <<Q(42), Q(81)>>
    /\ \E i \in 1..Len(trace) :
          /\ IsStandaloneCursor(i)
          /\ trace[i].event.x = OffWindow
          /\ trace[i + 1].pos = <<F(-100), Q(202)>>

\* the standalone delivery at i was offered to the application
OfferedAt(i) == i < Len(trace) /\ IsOffer(trace[i + 1])

\* C17: the standalone application layer receives common-vocabulary events
\* only: a mouse-button event only for button 1 (Left) or 2 (Right) with
\* Press or Release, a key event only with Press or Release, cursor and
\* scroll events; key and button events with Repeat, other mouse buttons
\* and all other window events produce no application event.
C17_StandaloneAppVocabulary ==
    \A i \in 1..Len(trace) :
        /\ trace[i].call = "WindowEvent" =>
              /\ trace[i].event.type = "WindowEvent::MouseButton" =>
                    /\ OfferedAt(i) <=>
                          /\ trace[i].event.button \in {"Button1", "Button2"}
                          /\ trace[i].event.action \in {"Press", "Release"}
                    /\ OfferedAt(i) =>
                          trace[i + 1].event =
                              [type |-> "MouseButton",
                               button |-> IF trace[i].event.button = "Button1"
                                          THEN "Left" ELSE "Right",
                               action |-> trace[i].event.action]
              /\ trace[i].event.type = "WindowEvent::Key" =>
                    /\ OfferedAt(i) <=> trace[i].event.action \in {"Press", "Release"}
                    /\ OfferedAt(i) =>
                          /\ trace[i + 1].event.type = "Key"
                          /\ trace[i + 1].event.action = trace[i].event.action
              /\ trace[i].event.type \in {"WindowEvent::CursorPos", "WindowEvent::Scroll"} =>
                    /\ OfferedAt(i)
                    /\ trace[i + 1].event.type \in {"CursorPos", "Scroll"}
              /\ trace[i].event.type \notin
                    {"WindowEvent::MouseButton", "WindowEvent::Key",
                     "WindowEvent::CursorPos", "WindowEvent::Scroll"} => ~OfferedAt(i)
        /\ (host = "standalone" /\ IsOffer(trace[i])) =>
              /\ i > 1
              /\ trace[i - 1].call = "WindowEvent"
              /\ trace[i].event.type \in {"MouseButton", "CursorPos", "Scroll", "Key"}

\* a press of button 3 and a repeat of button 2 have been delivered and not
\* offered, and a press of button 1 has been offered as Left
C17_Witness ==
    /\ \E i \in 1..Len(trace) :
          /\ trace[i].call = "WindowEvent"
          /\ trace[i].event = WE_MouseButton("Button3", "Press")
          /\ ~OfferedAt(i)
    /\ \E i \in 1..Len(trace) :
          /\ trace[i].call = "WindowEvent"
          /\ trace[i].event = WE_MouseButton("Button2", "Repeat")
          /\ ~OfferedAt(i)
    /\ \E i \in 1..Len(trace) :
          /\ trace[i].call = "WindowEvent"
          /\ trace[i].event = WE_MouseButton("Button1", "Press")
          /\ OfferedAt(i)
          /\ trace[i + 1].event = MouseButtonEvent("Left", "Press")

\* the UI library is given the character of entry i as typed text
IsTypedText(i) == trace[i].call = "io.add_input_character"

\* C18: the delete character (U+007F) is never forwarded to the UI library
\* as typed text, in either host, whatever the events.
C18_DeleteIsNeverTyped ==
    \A i \in 1..Len(trace) : IsTypedText(i) => trace[i].ch # DEL

\* the embedded platform has handled a plain press of the delete key without
\* typing anything, and a plain press of another key by typing its character
C18_Witness ==
    /\ \E i \in 1..Len(trace) :
          /\ IsForward(trace[i])
          /\ trace[i].event.type = "Key"
          /\ trace[i].event.ch = DEL
          /\ trace[i].event.action = "Press"
          /\ trace[i].event.modifiers = Modifiers(FALSE, FALSE, FALSE)
          /\ trace[i + 1] = add_key_event("Backspace", TRUE)
          /\ ~IsTypedText(i + 2)
    /\ \E i \in 1..Len(trace) : IsTypedText(i) /\ trace[i].ch = 97

\* the entry j is the read of the host data source name
IsRead(j, name) ==
    /\ j >= 1
    /\ trace[j].call = "DataRef.get"
    /\ trace[j].name = name

\* the scissor entry i is the one the clip rectangle gives for the panel
\* at (left, top) under the camera (modelview, projection, viewport)
ScissorUnder(i, left, top, modelview, projection, viewport) ==
    LET b1 == translate_imgui_to_boxel(left, top, trace[i].clip_rect[0],
                                       trace[i].clip_rect[1])
        b2 == translate_imgui_to_boxel(left, top, trace[i].clip_rect[2],
                                       trace[i].clip_rect[3])
        n1 == boxels_to_native(b1[1], b1[2], modelview, projection, viewport)
        n2 == boxels_to_native(b2[1], b2[2], modelview, projection, viewport)
    IN  /\ trace[i].x = n1[1]
        /\ trace[i].y = n2[2]
        /\ trace[i].width = WrapSub(n2[1], n1[1])
        /\ trace[i].height = WrapSub(n1[2], n2[2])

\* C19: the modelview matrix, the projection matrix and the viewport used
\* for a frame's scissor rectangles are read from the host during that same
\* render call, before any of its draw commands, and every draw command of
\* the frame uses the values read then, never values of an earlier call.
C19_CameraReadEachFrame ==
    host = "xplane" =>
        \A i \in 1..Len(trace) :
            /\ trace[i].call = "Context.render" =>
                  /\ IsRead(i - 3, "sim/graphics/view/modelview_matrix")
                  /\ IsRead(i - 2, "sim/graphics/view/projection_matrix")
                  /\ IsRead(i - 1, "sim/graphics/view/viewport")
                  /\ trace[i - 5].call = "Renderer.render"
            /\ IsScissor(i) =>
                  /\ \A k \in FrameOf(i)..i : trace[k].call # "DataRef.get"
                  /\ ScissorUnder(i, trace[FrameOf(i) - 5].rect.left,
                                  trace[FrameOf(i) - 5].rect.top,
                                  trace[FrameOf(i) - 3].ret,
                                  trace[FrameOf(i) - 2].ret,
                                  trace[FrameOf(i) - 1].ret)
            /\ (trace[i].call = "DataRef.get"
                  /\ trace[i].name # "sim/operation/misc/frame_rate_period") =>
                  \E j \in i..Len(trace) :
                      /\ j <= i + 3
                      /\ trace[j].call = "Context.render"

\* two frames have been drawn under different cameras, and the scissor of
\* the second is not the one the camera of the first would have given
C19_Witness ==
    /\ host = "xplane"
    /\ \E i \in 1..Len(trace), j \in 1..Len(trace) :
          /\ IsScissor(i)
          /\ IsScissor(j)
          /\ FrameOf(i) < FrameOf(j)
          /\ trace[FrameOf(i) - 2].ret # trace[FrameOf(j) - 2].ret
          /\ ~ScissorUnder(j, trace[FrameOf(j) - 5].rect.left,
                           trace[FrameOf(j) - 5].rect.top,
                           trace[FrameOf(i) - 3].ret,
                           trace[FrameOf(i) - 2].ret,
                           trace[FrameOf(i) - 1].ret)

IsWait(e) == e.call = "glfw.wait_events_timeout"

\* the call of wait_events_timeout that the entry i follows
LastWait(i) ==
    CHOOSE j \in 1..i :
        /\ IsWait(trace[j])
        /\ \A k \in (j + 1)..i : ~IsWait(trace[k])

RECURSIVE DeliveredIn(_, _)
\* the window events delivered by the entries a..b, in order
DeliveredIn(a, b) ==
    IF b < a THEN <<>>
    ELSE IF trace[b].call = "WindowEvent"
    THEN Append(DeliveredIn(a, b - 1), trace[b].event)
    ELSE DeliveredIn(a, b - 1)

\* the entry is part of the dispatch of an event
IsDispatch(e) == IsDelivery(e) \/ IsOffer(e) \/ IsForward(e)

\* the entries a..b are made by none of the calls in the set
NoneIn(a, b, callset) == \A k \in a..b : trace[k].call \notin callset

\* C20: dispatch and frame rendering never interleave.  In the standalone
\* loop every event left by wait_events_timeout is dispatched (application
\* first, then UI library) before the frame is started, and the frame is
\* new frame, draw_ui, render, buffer swap in that order with no dispatch
\* in between; in the embedded host each draw callback runs prepare_frame,
\* new frame, draw_ui and render in that order.
C20_DispatchThenFrame ==
    \A i \in 1..Len(trace) :
        /\ (host = "standalone" /\ trace[i].call = "Context.new_frame") =>
              /\ \E j \in 1..i : IsWait(trace[j])
              /\ DeliveredIn(LastWait(i), i) = trace[LastWait(i)].posted
              /\ trace[i - 1].call = "io.update_delta_time"
              /\ \A k \in LastWait(i)..(i - 2) : IsWait(trace[k]) \/ IsDispatch(trace[k])
                                                 \/ trace[k].call \in
                                                      {"io.add_key_event",
                                                       "io.add_input_character",
                                                       "io.add_mouse_pos_event",
                                                       "io.add_mouse_wheel_event",
                                                       "io.add_mouse_button_event"}
              /\ \A k \in LastWait(i)..i :
                    IsForward(trace[k]) =>
                       \/ IsOffer(trace[k - 1]) /\ IsDelivery(trace[k - 2])
                       \/ IsDelivery(trace[k - 1])
              /\ i + 3 <= Len(trace)
              /\ trace[i + 1].call = "App.draw_ui"
              /\ trace[i + 3].call = "render"
              /\ \/ /\ panicked
                    /\ NoneIn(i + 1, Len(trace),
                              {"Window.swap_buffers", "Context.new_frame",
                               "WindowEvent", "App.handle_event",
                               "Platform.handle_event"})
                 \/ \E n \in (i + 4)..Len(trace) :
                       /\ trace[n].call = "Window.swap_buffers"
                       /\ trace[n - 1].call = "restore_render_state"
                       /\ NoneIn(i + 1, n - 1,
                                 {"Window.swap_buffers", "Context.new_frame",
                                  "glfw.wait_events_timeout", "WindowEvent",
                                  "App.handle_event", "Platform.handle_event"})
                       /\ n < Len(trace) => IsWait(trace[n + 1])
        /\ (host = "standalone" /\ IsDispatch(trace[i])) =>
              /\ \E j \in 1..i : IsWait(trace[j])
              /\ NoneIn(LastWait(i), i, {"Context.new_frame", "App.draw_ui", "render",
                                         "Window.swap_buffers"})
        /\ trace[i].call = "Delegate.draw" =>
              \E n \in (i + 1)..Len(trace) :
                 /\ trace[n].call = "Context.new_frame"
                 /\ trace[i + 2].call = "Platform.prepare_frame"
                 /\ NoneIn(i + 1, n - 1,
                           {"Delegate.draw", "Context.new_frame", "App.draw_ui",
                            "Renderer.render", "Delegate.handle_event"})
                 /\ n + 2 <= Len(trace)
                 /\ trace[n + 1].call = "App.draw_ui"
                 /\ trace[n + 2].call = "Renderer.render"
        /\ (host = "xplane" /\ trace[i].call \in {"Context.new_frame", "Renderer.render"}) =>
              \E j \in 1..i :
                 /\ trace[j].call = "Delegate.draw"
                 /\ NoneIn(j + 1, i, {"Delegate.draw", "Delegate.handle_event"})

\* the standalone loop has dispatched a batch of two events, one of them
\* consumed by the application, drawn a frame and swapped the buffers
C20_Witness ==
    /\ host = "standalone"
    /\ \E i \in 1..Len(trace) :
          /\ trace[i].call = "Context.new_frame"
          /\ Len(trace[LastWait(i)].posted) = 2
          /\ \E k \in LastWait(i)..i : IsOffer(trace[k]) /\ trace[k].ret
          /\ \E k \in LastWait(i)..i : IsForward(trace[k])
          /\ \E n \in i..Len(trace) : trace[n].call = "Window.swap_buffers"

\* the entry i is the host calling one of the two click callbacks
IsClickCallback(i) == trace[i].call \in {"handle_mouse_click", "handle_right_click"}

\* the entry at which the callback entered at i returns
ReturnOf(i) ==
    CHOOSE r \in i..Len(trace) :
        /\ trace[r].call = "return"
        /\ \A k \in i..(r - 1) : trace[k].call # "return"

\* C21: every embedded click callback yields exactly one MouseButton event,
\* Left from handle_mouse_click and Right from handle_right_click, whose
\* action is Release if and only if the host status is mouse-up and Press
\* for mouse-down and drag; and the callback always returns 1 (handled) to
\* the host, whether or not the application consumed the event.
C21_ClickCallbacks ==
    \A i \in 1..Len(trace) :
        IsClickCallback(i) =>
            /\ \E r \in i..Len(trace) : trace[r].call = "return"
            /\ trace[ReturnOf(i)].fn = trace[i].call
            /\ trace[ReturnOf(i)].ret = 1
            /\ trace[i + 1].call = "Delegate.handle_event"
            /\ trace[i + 1].event.type = "MouseButton"
            /\ trace[i + 1].event.button =
                  (IF trace[i].call = "handle_mouse_click" THEN "Left" ELSE "Right")
            /\ trace[i + 1].event.action = "Release" <=> trace[i].status = "xplm_MouseUp"
            /\ trace[i + 1].event.action = "Press" <=> trace[i].status # "xplm_MouseUp"
            /\ \A k \in (i + 2)..ReturnOf(i) : trace[k].call # "Delegate.handle_event"

\* a drag has been handled by the left-click callback as a press that the
\* application consumed, and a mouse-up by the right-click callback as a
\* release it did not consume; both callbacks returned 1
C21_Witness ==
    /\ \E i \in 1..Len(trace) :
          /\ trace[i].call = "handle_mouse_click"
          /\ trace[i].status = "xplm_MouseDrag"
          /\ trace[i + 1].event = MouseButtonEvent("Left", "Press")
          /\ trace[i + 2].ret
          /\ trace[i + 3] = [call |-> "return", fn |-> "handle_mouse_click", ret |-> 1]
    /\ \E i \in 1..Len(trace) :
          /\ trace[i].call = "handle_right_click"
          /\ trace[i].status = "xplm_MouseUp"
          /\ trace[i + 1].event = MouseButtonEvent("Right", "Release")
          /\ ~trace[i + 2].ret
          /\ trace[ReturnOf(i)].ret = 1

(***************************************************************************)
(* The embedded host drawing frames, from any keyboard state a run of      *)
(* frames can leave                                                        *)
(***************************************************************************)
InitFocus ==
    /\ overflow_checks \in BOOLEAN
    /\ arg = <<>>
    /\ ret = NotCalled
    /\ host = "xplane"
    /\ panicked = FALSE
    /\ geometry \in HostPanels
    /\ window = InitialWindow
    /\ has_keyboard_focus \in BOOLEAN
    /\ \E want \in BOOLEAN : io = [XPInitIo EXCEPT !.want_capture_keyboard = want]
    /\ events = <<>>
    /\ pc = "callback"
    /\ calls = 0
    /\ trace = <<>>

NextFocus == XP_DrawWindow

SpecFocus == InitFocus /\ [][NextFocus]_vars

\* the calls the step adds to the trace
NewCalls == SubSeq(trace', Len(trace) + 1, Len(trace'))

\* the step makes the call
Calls(name) == \E k \in 1..Len(NewCalls) : NewCalls[k].call = name

\* C22: after every prepare_frame the panel holds the keyboard focus if and
\* only if the UI library wants keyboard capture; focus is taken only when
\* wanted and not held and released only when held and not wanted; and
\* whenever prepare_frame releases the focus it marks all keys up and sends
\* the UI library the release of Ctrl, Alt and Shift.
C22_FocusFollowsCapture ==
    [][Calls("Window.has_keyboard_focus") =>
          /\ has_keyboard_focus' = io.want_capture_keyboard
          /\ Calls("Window.take_keyboard_focus") <=>
                (io.want_capture_keyboard /\ ~has_keyboard_focus)
          /\ Calls("Window.release_keyboard_focus") <=>
                (~io.want_capture_keyboard /\ has_keyboard_focus)
          /\ \A k \in 1..Len(NewCalls) :
                /\ NewCalls[k].call = "Window.has_keyboard_focus" =>
                      /\ NewCalls[k].ret = has_keyboard_focus
                      /\ NewCalls[k - 3].call = "Platform.prepare_frame"
                /\ NewCalls[k].call \in {"Window.take_keyboard_focus",
                                         "Window.release_keyboard_focus"} =>
                      NewCalls[k - 1].call = "Window.has_keyboard_focus"
                /\ NewCalls[k].call = "Window.release_keyboard_focus" =>
                      /\ NewCalls[k + 1] = [call |-> "io.keys_down.fill", v |-> FALSE]
                      /\ NewCalls[k + 2] = [call |-> "io.add_key_event",
                                            key |-> "ModCtrl", down |-> FALSE]
                      /\ NewCalls[k + 3] = [call |-> "io.add_key_event",
                                            key |-> "ModAlt", down |-> FALSE]
                      /\ NewCalls[k + 4] = [call |-> "io.add_key_event",
                                            key |-> "ModShift", down |-> FALSE]
                      /\ NewCalls[k + 5].call = "Context.new_frame"
                /\ NewCalls[k].call = "io.add_key_event" =>
                      Calls("Window.release_keyboard_focus")]_vars

\* the focus has been released in one frame and taken again in the next
C22_Witness ==
    /\ has_keyboard_focus
    /\ \E i \in 1..Len(trace), j \in 1..Len(trace) :
          /\ i < j
          /\ trace[i].call = "Window.release_keyboard_focus"
          /\ trace[i + 4] = add_key_event("ModShift", FALSE)
          /\ trace[j].call = "Window.take_keyboard_focus"

\* ---------------------------------------------------------------------------
\* Graphics stacks across one render call

Stacks == {"attrib", "client", "MatrixMode(PROJECTION)", "MatrixMode(MODELVIEW)"}

RECURSIVE ModeAfter(_, _)
\* the matrix stack selected after the first n graphics calls of gl
ModeAfter(gl, n) ==
    IF n = 0 THEN "unselected"
    ELSE IF gl[n] \in {"MatrixMode(PROJECTION)", "MatrixMode(MODELVIEW)"} THEN gl[n]
    ELSE ModeAfter(gl, n - 1)

\* the stack the n-th graphics call of gl pushes or pops, "none" otherwise
StackOf(gl, n) ==
    IF gl[n] \in {"PushAttrib", "PopAttrib"} THEN "attrib"
    ELSE IF gl[n] \in {"PushClientAttrib", "PopClientAttrib"} THEN "client"
    ELSE IF gl[n] \in {"PushMatrix", "PopMatrix"} THEN ModeAfter(gl, n - 1)
    ELSE "none"

IsPush(c) == c \in {"PushAttrib", "PushClientAttrib", "PushMatrix"}

IsPop(c) == c \in {"PopAttrib", "PopClientAttrib", "PopMatrix"}

\* pushes (want = TRUE) or pops made on one stack by the calls of gl
Count(gl, stack, want) ==
    Cardinality({n \in 1..Len(gl) :
                    /\ StackOf(gl, n) = stack
                    /\ IF want THEN IsPush(gl[n]) ELSE IsPop(gl[n])})

\* the setup_render_state entry of the render call that ends at entry r
SetupOf(r) ==
    CHOOSE s \in 1..r :
        /\ trace[s].call = "setup_render_state"
        /\ \A j \in (s + 1)..r : trace[j].call # "setup_render_state"

IsRestore(r) == r \in 1..Len(trace) /\ trace[r].call = "restore_render_state"

\* C23: for every render call that returns, in either renderer, each push
\* setup_render_state makes on the attribute stack, the client attribute stack
\* or a matrix stack is matched by exactly one pop on the same stack in
\* restore_render_state; setup pops nothing, restore pushes nothing and the
\* draw calls between them touch no stack, so every stack is as deep after
\* render as before it
C23_StacksBalanced ==
    \A r \in 1..Len(trace) :
        IsRestore(r) =>
            /\ \E s \in 1..r : trace[s].call = "setup_render_state"
            /\ \A stack \in Stacks :
                 /\ Count(trace[SetupOf(r)].gl, stack, FALSE) = 0
                 /\ Count(trace[r].gl, stack, TRUE) = 0
                 /\ Count(trace[SetupOf(r)].gl \o trace[r].gl, stack, TRUE)
                      = Count(trace[SetupOf(r)].gl \o trace[r].gl, stack, FALSE)
            /\ \A n \in 1..Len(trace[SetupOf(r)].gl \o trace[r].gl) :
                 StackOf(trace[SetupOf(r)].gl \o trace[r].gl, n) \in Stacks \cup {"none"}
            /\ \A j \in (SetupOf(r) + 1)..(r - 1) :
                 trace[j].call \notin {"setup_render_state", "restore_render_state",
                                       "gl.PushAttrib", "gl.PopAttrib",
                                       "gl.PushClientAttrib", "gl.PopClientAttrib",
                                       "gl.PushMatrix", "gl.PopMatrix",
                                       "gl.MatrixMode"}

\* an embedded frame that drew an element and came back from render with the
\* three stacks it pushed popped again
C23_Witness ==
    /\ host = "xplane"
    /\ \E r \in 1..Len(trace) :
         /\ IsRestore(r)
         /\ \E s \in 1..r : trace[s].call = "setup_render_state"
         /\ Count(trace[SetupOf(r)].gl, "client", TRUE) = 1
         /\ Count(trace[SetupOf(r)].gl, "attrib", TRUE) = 1
         /\ Count(trace[SetupOf(r)].gl, "MatrixMode(PROJECTION)", TRUE) = 1
         /\ Count(trace[r].gl, "client", FALSE) = 1
         /\ \E j \in (SetupOf(r) + 1)..(r - 1) : trace[j].call = "gl.DrawElements"

\* ---------------------------------------------------------------------------
\* The common render loop, seen through what the draw-element callback does
\* with its arguments: it binds texture_id, sets the scissor from clip_rect and
\* draws count indices from idx_offset

RECURSIVE Flatten(_, _)
\* the commands of the draw lists from the i-th on, in draw-list and command order
Flatten(draw_lists, i) ==
    IF i > Len(draw_lists) THEN <<>>
    ELSE draw_lists[i] \o Flatten(draw_lists, i + 1)

\* the position of the first command that is not an Elements command, one
\* past the end when there is none
FirstOther(commands) ==
    IF \E n \in 1..Len(commands) : commands[n].cmd # "Elements"
    THEN CHOOSE n \in 1..Len(commands) :
             /\ commands[n].cmd # "Elements"
             /\ \A k \in 1..(n - 1) : commands[k].cmd = "Elements"
    ELSE Len(commands) + 1

IsContextRender(i) == i \in 1..Len(trace) /\ trace[i].call = "Context.render"

\* the render call whose draw data is at entry i came back
Restored(i) == \E r \in (i + 1)..Len(trace) : IsRestore(r)

\* one past the last entry of the render loop run on the draw data at entry i
LoopEnd(i) ==
    IF Restored(i)
    THEN CHOOSE r \in (i + 1)..Len(trace) :
             IsRestore(r) /\ \A j \in (i + 1)..(r - 1) : ~IsRestore(j)
    ELSE Len(trace) + 1

HasCall(e, names) == e.call \in names

\* the entries with one of the names, among those the loop run on the draw
\* data at entry i left
LoopCalls(i, names) ==
    SelectSeq(SubSeq(trace, i + 1, LoopEnd(i) - 1), LAMBDA e : HasCall(e, names))

Binds(i) == LoopCalls(i, {"XPLMBindTexture2d", "gl.BindTexture"})

Scissors(i) == LoopCalls(i, {"gl.Scissor"})

Draws(i) == LoopCalls(i, {"gl.DrawElements"})

\* C24: the render loop calls the draw-element callback once for each
\* Elements command, in draw-list and command order, with that command's own
\* count, clip rectangle, texture id and index offset; a ResetRenderState or
\* RawCallback command is not skipped: the loop panics at it, after the
\* commands before it were drawn, and restore_render_state is not reached
C24_OneCallPerElementsCommand ==
    \A i \in 1..Len(trace) :
        IsContextRender(i) =>
            /\ Len(Draws(i)) <= FirstOther(Flatten(trace[i].ret, 1)) - 1
            /\ Len(Scissors(i)) = Len(Draws(i))
            /\ Len(Binds(i)) \in {Len(Draws(i)), Len(Draws(i)) + 1}
            /\ \A n \in 1..Len(Draws(i)) :
                 /\ Draws(i)[n].count = Flatten(trace[i].ret, 1)[n].count
                 /\ Draws(i)[n].idx_offset = Flatten(trace[i].ret, 1)[n].idx_offset
                 /\ Scissors(i)[n].clip_rect = Flatten(trace[i].ret, 1)[n].clip_rect
                 /\ Binds(i)[n].texture_id = Flatten(trace[i].ret, 1)[n].texture_id
            /\ Restored(i) =>
                 /\ Len(Draws(i)) = Len(Flatten(trace[i].ret, 1))
                 /\ \A n \in 1..Len(Flatten(trace[i].ret, 1)) :
                      Flatten(trace[i].ret, 1)[n].cmd = "Elements"
            /\ FirstOther(Flatten(trace[i].ret, 1)) <= Len(Flatten(trace[i].ret, 1)) =>
                 /\ ~Restored(i)
                 /\ panicked
                 /\ Len(Draws(i)) = FirstOther(Flatten(trace[i].ret, 1)) - 1
                 /\ trace[Len(trace)].call # "restore_render_state"

\* a frame of two draw lists and three commands drawn and restored, then a
\* frame whose second command is ResetRenderState: its first command is drawn
\* and the frame ends in the panic
C24_Witness ==
    /\ panicked
    /\ \E i1, i2 \in 1..Len(trace) :
         /\ i1 < i2
         /\ IsContextRender(i1) /\ IsContextRender(i2)
         /\ trace[i1].ret = DrawTwoLists
         /\ \E r \in (i1 + 1)..(i2 - 1) :
              /\ IsRestore(r)
              /\ Len(SelectSeq(SubSeq(trace, i1 + 1, r - 1),
                               LAMBDA e : HasCall(e, {"gl.DrawElements"}))) = 3
         /\ trace[i2].ret = DrawReset
         /\ ~Restored(i2)
         /\ Len(Draws(i2)) = 1

\* ---------------------------------------------------------------------------
\* Embedded key callbacks

IsKeyCallback(i) == i \in 1..Len(trace) /\ trace[i].call = "handle_key"

IsIoKeyCall(e) == e.call \in {"io.add_key_event", "io.add_input_character"}

\* the calls on the UI library that follow the forward at entry f, up to the
\* first entry that is something else
Forwarded(f) ==
    LET last == CHOOSE n \in f..Len(trace) :
                    /\ \A j \in (f + 1)..n : IsIoKeyCall(trace[j])
                    /\ n = Len(trace) \/ ~IsIoKeyCall(trace[n + 1])
    IN  SubSeq(trace, f + 1, last)

\* the state of key after the UI library has taken the calls of seg in order,
\* "untouched" when none of them is about it
KeyStateAfter(seg, key) ==
    IF \E n \in 1..Len(seg) : seg[n].call = "io.add_key_event" /\ seg[n].key = key
    THEN seg[CHOOSE n \in 1..Len(seg) :
                 /\ seg[n].call = "io.add_key_event" /\ seg[n].key = key
                 /\ \A k \in (n + 1)..Len(seg) :
                      ~(seg[k].call = "io.add_key_event" /\ seg[k].key = key)].down
    ELSE "untouched"

Typed(seg) == SelectSeq(seg, LAMBDA e : HasCall(e, {"io.add_input_character"}))

ModKeys == {"ModCtrl", "ModAlt", "ModShift"}

\* the key events of seg that are not about a modifier
CodeEvents(seg) ==
    SelectSeq(seg, LAMBDA e : e.call = "io.add_key_event" /\ e.key \notin ModKeys)

\* the event handle_key builds from the arguments recorded in entry e
EventOfKeyCallback(e) ==
    KeyEvent(to_imgui_key(e.virtual_key), c_char_as_char(e.key),
             IF "xplm_UpFlag" \in e.flags THEN "Release" ELSE "Press",
             Modifiers("xplm_ControlFlag" \in e.flags, "xplm_OptionAltFlag" \in e.flags,
                       "xplm_ShiftFlag" \in e.flags))

\* what the UI library is given for the key event ev forwarded at entry f
ForwardedAsClaimed(f, ev) ==
    /\ Typed(Forwarded(f)) =
         IF /\ ev.action = "Press"
            /\ ~ev.modifiers.control
            /\ ~ev.modifiers.option
            /\ ev.ch # DEL
         THEN <<add_input_character(ev.ch)>> ELSE <<>>
    /\ CodeEvents(Forwarded(f)) =
         IF ev.key # "None" THEN <<add_key_event(ev.key, ev.action = "Press")>> ELSE <<>>
    /\ KeyStateAfter(Forwarded(f), "ModCtrl") = ev.modifiers.control
    /\ KeyStateAfter(Forwarded(f), "ModAlt") = ev.modifiers.option
    /\ KeyStateAfter(Forwarded(f), "ModShift") = ev.modifiers.shift

\* C25: an embedded key callback flagged as losing focus produces no event;
\* any other produces the Key event of its arguments, and when the application
\* does not consume it the UI library is given the character as typed text if
\* and only if the action is Press, neither control nor option is held and
\* the character is not U+007F, the mapped key code (if any) as down for
\* Press and up for Release, and Ctrl, Alt and Shift states equal to the
\* event's control, option and shift flags; a consumed event gives it nothing
C25_KeyEventsForwarded ==
    \A i \in 1..Len(trace) :
        IsKeyCallback(i) =>
            IF trace[i].losing_focus # 0
            THEN i = Len(trace) \/
                 trace[i + 1].call \notin {"Delegate.handle_event", "App.handle_event",
                                           "Platform.handle_event", "io.add_key_event",
                                           "io.add_input_character"}
            ELSE /\ i + 2 <= Len(trace)
                 /\ trace[i + 1] = [call |-> "Delegate.handle_event",
                                    event |-> EventOfKeyCallback(trace[i])]
                 /\ trace[i + 2].call = "App.handle_event"
                 /\ trace[i + 2].event = EventOfKeyCallback(trace[i])
                 /\ IF trace[i + 2].ret
                    THEN Forwarded(i + 2) = <<>> /\
                         (i + 2 = Len(trace) \/ ~IsForward(trace[i + 3]))
                    ELSE /\ i + 3 <= Len(trace)
                         /\ trace[i + 3] = [call |-> "Platform.handle_event",
                                            event |-> EventOfKeyCallback(trace[i])]
                         /\ ForwardedAsClaimed(i + 3, EventOfKeyCallback(trace[i]))

\* shift-A pressed and not consumed: typed as "A", key A down, Shift held and
\* Ctrl and Alt not; then a callback flagged as losing focus, which leaves
\* nothing after its own entry
C25_Witness ==
    /\ Len(trace) >= 9
    /\ IsKeyCallback(1)
    /\ trace[1].losing_focus = 0
    /\ trace[1].flags = {"xplm_DownFlag", "xplm_ShiftFlag"}
    /\ ~trace[3].ret
    /\ Forwarded(4) = <<add_key_event("A", TRUE), add_input_character(65),
                        add_key_event("ModCtrl", FALSE), add_key_event("ModAlt", FALSE),
                        add_key_event("ModShift", TRUE)>>
    /\ IsKeyCallback(10)
    /\ trace[10].losing_focus = 1
    /\ Len(trace) = 10

(***************************************************************************)
(* The embedded plugin using its window after init: System's two methods   *)
(* (src/xplane.rs) and Window's gravity methods (ui.rs)                    *)
(***************************************************************************)
MaxWindowCalls == 3

\* a call on the window init created
WindowCall(w, tr) ==
    /\ host = "xplane"
    /\ pc = "callback"
    /\ ~panicked
    /\ calls < MaxWindowCalls
    /\ calls' = calls + 1
    /\ window' = w
    /\ trace' = trace \o tr
    /\ UNCHANGED <<overflow_checks, arg, ret, host, panicked, geometry,
                   has_keyboard_focus, io, events, pc>>

\* System::toggle_hint_window
System_toggle_hint_window ==
    WindowCall(window_toggle_visible(window).w,
               <<[call |-> "System.toggle_hint_window"]>> \o
               window_toggle_visible(window).tr \o
               <<[call |-> "return", fn |-> "toggle_hint_window",
                  ret |-> window_toggle_visible(window).ret]>>)

\* System::set_hint_window_visible
System_set_hint_window_visible ==
    \E visible \in BOOLEAN :
        WindowCall(window_set_visible(window, visible),
                   <<[call |-> "System.set_hint_window_visible", visible |-> visible],
                     [call |-> "Window.set_visible", visible |-> visible]>>)

WindowGravities == {Gravity(F(0), F(1), F(1), F(0)), Gravity(F(1), F(1), F(1), F(1))}

\* Window::set_gravity
Window_set_gravity ==
    \E gravity \in WindowGravities :
        WindowCall(window_set_gravity(window, gravity),
                   <<[call |-> "Window.set_gravity", gravity |-> gravity]>>)

\* Window::gravity
Window_gravity ==
    WindowCall(window, <<[call |-> "Window.gravity", ret |-> window_gravity(window)]>>)

NextWindow ==
    \/ XP_Init
    \/ System_toggle_hint_window
    \/ System_set_hint_window_visible
    \/ Window_set_gravity
    \/ Window_gravity

SpecWindow == InitEmbedded /\ [][NextWindow]_vars

\* entry e sets the window's visibility or returns it from a toggle
TellsVisibility(e) ==
    \/ e.call = "Window.set_visible"
    \/ e.call = "return" /\ e.fn = "toggle_hint_window"

VisibilityIn(e) == IF e.call = "return" THEN e.ret ELSE e.visible

\* the last value set or returned among the first n entries
LastVisibility(n) ==
    VisibilityIn(trace[CHOOSE j \in 1..n :
                           /\ TellsVisibility(trace[j])
                           /\ \A k \in (j + 1)..n : ~TellsVisibility(trace[k])])

IsToggle(i) == i \in 1..Len(trace) /\ trace[i].call = "System.toggle_hint_window"

\* C26: embedded init leaves the window hidden; a toggle finds the last
\* visibility set or returned, sets its negation and returns that new
\* visibility; after any sequence of set_visible and toggle_visible calls the
\* host's visibility of the window is the last value set or returned; two
\* consecutive toggles bring the visibility back to what it was
C26_VisibilityIsLastSet ==
    window.created =>
        /\ calls = 0 => ~window.visible
        /\ window.visible = LastVisibility(Len(trace))
        /\ \A i \in 1..Len(trace) :
             IsToggle(i) =>
                 /\ trace[i + 1] = [call |-> "Window.visible", ret |-> LastVisibility(i)]
                 /\ trace[i + 2] = [call |-> "Window.set_visible",
                                    visible |-> ~LastVisibility(i)]
                 /\ trace[i + 3] = [call |-> "return", fn |-> "toggle_hint_window",
                                    ret |-> ~LastVisibility(i)]
                 /\ IsToggle(i + 4) =>
                      /\ trace[i + 7].ret = LastVisibility(i)
                      /\ (Len(trace) = i + 7 => window.visible = LastVisibility(i))

\* the window was shown after init, then toggled twice: hidden by the first
\* toggle, which returned false, and visible again after the second
C26_Witness ==
    /\ window.created
    /\ window.visible
    /\ calls = 3
    /\ \E i \in 1..Len(trace) :
         /\ IsToggle(i)
         /\ IsToggle(i + 4)
         /\ Len(trace) = i + 7
         /\ trace[i - 1] = [call |-> "Window.set_visible", visible |-> TRUE]
         /\ trace[i + 3].ret = FALSE
         /\ trace[i + 7].ret = TRUE

IsSetGravity(e) == e.call = "Window.set_gravity"

\* the gravity most recently applied with set_gravity among the first n
\* entries, the default when there is none
LastGravityApplied(n) ==
    IF \E j \in 1..n : IsSetGravity(trace[j])
    THEN trace[CHOOSE j \in 1..n :
                   /\ IsSetGravity(trace[j])
                   /\ \A k \in (j + 1)..n : ~IsSetGravity(trace[k])].gravity
    ELSE Gravity_default

\* C27: Window::gravity() returns the gravity most recently applied with
\* set_gravity, the default one only if set_gravity was never called; after
\* init it is the gravity init applied (left 0, top 1, right 1, bottom 0)
C27_GravityIsLastApplied ==
    window.created =>
        /\ window_gravity(window) = LastGravityApplied(Len(trace))
        /\ calls = 0 => window_gravity(window) = Gravity(F(0), F(1), F(1), F(0))
        /\ \A i \in 1..Len(trace) :
             trace[i].call = "Window.gravity" => trace[i].ret = LastGravityApplied(i)

\* what the code does instead: gravity() is the default gravity whatever was
\* applied, and the host holds the gravity last applied
C27_GravityStaysDefault ==
    window.created =>
        /\ window_gravity(window) = Gravity_default
        /\ window.host_gravity = LastGravityApplied(Len(trace))
        /\ \A i \in 1..Len(trace) :
             trace[i].call = "Window.gravity" => trace[i].ret = Gravity_default

\* init has applied (0, 1, 1, 0) and gravity() has since returned (0, 1, 0, 1)
C27_Witness ==
    /\ window.created
    /\ trace[Len(trace)] = [call |-> "Window.gravity", ret |-> Gravity_default]
    /\ LastGravityApplied(Len(trace)) = Gravity(F(0), F(1), F(1), F(0))

\* ---------------------------------------------------------------------------
\* The rectangle init gives the window

\* a requested u32 value that fits in i32
FitsI32(u) == u.hi < Limb \div 2

\* init was called with every source published and values that fit in i32
InitCalledInRange ==
    /\ pc # "init"
    /\ \A k \in 1..4 : RequiredSources[k] \in arg.found
    /\ FitsI32(arg.x) /\ FitsI32(arg.y) /\ FitsI32(arg.width) /\ FitsI32(arg.height)

\* the window's rectangle is the requested one, placed from the top left of
\* the screen bounds
PlacedAsRequested ==
    /\ ~panicked
    /\ WindowExists
    /\ geometry.left - arg.bounds.left = U32AsI32(arg.x)
    /\ arg.bounds.top - geometry.top = U32AsI32(arg.y)
    /\ geometry.left <= geometry.right
    /\ geometry.bottom <= geometry.top
    /\ geometry.right - geometry.left = U32AsI32(arg.width)
    /\ geometry.top - geometry.bottom = U32AsI32(arg.height)
    /\ ~width_overflows(geometry) /\ width(geometry) = arg.width
    /\ ~height_overflows(geometry) /\ height(geometry) = arg.height

\* C28: for all requested x, y, width and height that fit in i32, init
\* creates the window at left = bounds.left + x, top = bounds.top - y,
\* right = left + width, bottom = top - height, so that left <= right,
\* bottom <= top and width() and height() are the requested width and height
C28_InitRectPlacement == InitCalledInRange => PlacedAsRequested

\* what the code does: the window is placed as requested whenever none of the
\* four i32 operations of init overflows
C28_PlacedUnlessOverflow ==
    (InitCalledInRange /\
     ~init_rect_overflows(arg.bounds, arg.x, arg.y, arg.width, arg.height))
        => PlacedAsRequested

\* init returned with a rectangle whose right edge is left of its left edge
C28_Inverted ==
    /\ InitCalledInRange
    /\ ~panicked
    /\ geometry.right < geometry.left

====
